---- MODULE Spec2Model ----
(***************************************************************************)
(* A model of davies (riggsd/tsodilo): the Compass and PocketTopo survey   *)
(* record models, the Compass survey-record parser and the PocketTopo to   *)
(* Compass shot conversion.                                                *)
(*                                                                         *)
(* Numbers.  Python floats are modelled as integers counting hundredths    *)
(* (7.0 is 700, -3.75 is -375, 180 degrees is 18000).  Readings are drawn  *)
(* from multiples of 0.5 so that the division by 2.0 of the backsight      *)
(* averages is exact.  Python's % with a positive modulus gives a result   *)
(* in [0, modulus), as does TLA+'s %.                                      *)
(*                                                                         *)
(* Values.  A Python value is a record [t, n, s]: t is the kind ("num",    *)
(* "None", "inf", "str", "tuple", "missing" for a key that the mapping     *)
(* does not hold, "raise" for an exception leaving the call), n the number *)
(* of a "num", s the text of a "str", the letters of a "tuple" of flags or *)
(* the name of the exception.                                              *)
(***************************************************************************)
EXTENDS Integers, Sequences, FiniteSets, TLC

VARIABLES
    shot,       \* SpecShot: the Shot under construction (either format)
    ckey,       \* SpecCoerce: the field name handed to _coerce
    cval,       \* SpecCoerce: the literal handed to _coerce
    cout,       \* SpecCoerce: what _coerce returned
    survey,     \* SpecSurvey: a Survey (either format) and its shots
    header,     \* SpecParse: shot_header, the tokens of the column-header line
    lines,      \* SpecParse: the shot rows not yet read
    parsed,     \* SpecParse: the rows read so far, with the Shot made of each
    pstatus,    \* SpecParse: "parsing", "returned" or the exception raised
    insurvey,   \* SpecConv: the PocketTopo survey being converted
    opts,       \* SpecConv: exclude_splays, calculate_lrud
    outshots,   \* SpecConv: the Compass shots produced so far
    cpos,       \* SpecConv: index of the next input shot
    cstatus,    \* SpecConv: "converting", "done" or the exception raised
    mak,        \* SpecMak: CompassProjectParser.parse at work on a .MAK file
    dat,        \* SpecDat: CompassDatParser.parse at work on a .DAT file
    txt,        \* SpecTxt: PocketTopoTxtParser.parse at work on a .TXT file
    file,       \* SpecFile: a File container (DatFile or TxtFile) and a lookup
    job         \* SpecJob: pockettopo2compass at work on a TxtFile

vars == <<shot, ckey, cval, cout, survey, header, lines, parsed, pstatus,
          insurvey, opts, outshots, cpos, cstatus, mak, dat, txt, file, job>>

shotVars   == <<shot>>
coerceVars == <<ckey, cval, cout>>
surveyVars == <<survey>>
parseVars  == <<header, lines, parsed, pstatus>>
convVars   == <<insurvey, opts, outshots, cpos, cstatus>>
makVars    == <<mak>>
datVars    == <<dat>>
txtVars    == <<txt>>
fileVars   == <<file>>
jobVars    == <<job>>
extVars    == <<mak, dat, txt, file, job>>

-----------------------------------------------------------------------------
(* Python values *)

Num(n)   == [t |-> "num",     n |-> n, s |-> ""]
Str(s)   == [t |-> "str",     n |-> 0, s |-> s]
None     == [t |-> "None",    n |-> 0, s |-> ""]
Inf      == [t |-> "inf",     n |-> 0, s |-> ""]
Missing  == [t |-> "missing", n |-> 0, s |-> ""]
Raise(e) == [t |-> "raise",   n |-> 0, s |-> e]

IsNum(v)  == v.t = "num"
IsNone(v) == v.t = "None"

\* dict.get(key, default): the default stands in for a key the mapping lacks.
Get(sh, key, default) ==
    IF key \in DOMAIN sh.f /\ sh.f[key].t # "missing" THEN sh.f[key] ELSE default

-----------------------------------------------------------------------------
(* davies.compass.Shot *)

CompassKeys == {"BEARING", "AZM2", "INC", "INC2", "LENGTH"}

\* Shot(declination=d): an empty ordered mapping carrying the declination.
CompassShot(d) ==
    [fmt |-> "compass", declination |-> d, f |-> [k \in CompassKeys |-> Missing]]

\* A plausible slip: the backsight is averaged without being reversed.
Compass_azm_NoReverse(sh) ==
    LET azm1 == Get(sh, "BEARING", None)
        azm2 == Get(sh, "AZM2", None)
    IN  IF IsNone(azm1) /\ IsNone(azm2) THEN None
        ELSE IF IsNone(azm2) THEN Num(azm1.n + sh.declination)
        ELSE IF IsNone(azm1) THEN Num(azm2.n + sh.declination)
        ELSE Num(((azm1.n + azm2.n) \div 2) + sh.declination)

Compass_azm(sh) ==
    LET azm1 == Get(sh, "BEARING", None)
        azm2 == Get(sh, "AZM2", None)
    IN  IF IsNone(azm1) /\ IsNone(azm2) THEN None
        ELSE IF IsNone(azm2) THEN Num(azm1.n + sh.declination)
        ELSE IF IsNone(azm1) THEN Num(((azm2.n + 18000) % 36000) + sh.declination)
        ELSE Num(((azm1.n + ((azm2.n + 18000) % 36000)) \div 2) + sh.declination)

\* A plausible slip: the lone backsight is returned without its sign turned.
Compass_inc_NoNegate(sh) ==
    LET inc1 == Get(sh, "INC", None)
        inc2 == Get(sh, "INC2", None)
    IN  IF IsNone(inc1) /\ IsNone(inc2) THEN None
        ELSE IF IsNone(inc2) THEN inc1
        ELSE IF IsNone(inc1) THEN inc2
        ELSE Num((inc1.n - inc2.n) \div 2)

Compass_inc(sh) ==
    LET inc1 == Get(sh, "INC", None)
        inc2 == Get(sh, "INC2", None)
    IN  IF IsNone(inc1) /\ IsNone(inc2) THEN None
        ELSE IF IsNone(inc2) THEN inc1
        ELSE IF IsNone(inc1) THEN Num(-1 * inc2.n)
        ELSE Num((inc1.n - inc2.n) \div 2)

Compass_length(sh) == Get(sh, "LENGTH", None)

-----------------------------------------------------------------------------
(* davies.pockettopo.Shot *)

PocketTopoKeys == {"FROM", "TO", "AZM", "INC", "LENGTH"}

PocketTopoShot(d) ==
    [fmt |-> "pockettopo", declination |-> d, f |-> [k \in PocketTopoKeys |-> Missing]]

\* The default -0.0 is the number zero; adding a number to None is a TypeError.
PocketTopo_azm(sh) ==
    LET a == Get(sh, "AZM", Num(0))
    IN  IF IsNum(a) THEN Num(a.n + sh.declination) ELSE Raise("TypeError")

PocketTopo_inc(sh) == Get(sh, "INC", Num(0))

PocketTopo_length(sh) == Get(sh, "LENGTH", Num(0))

PocketTopo_is_splay(sh) ==
    LET to == Get(sh, "TO", None) IN IsNone(to) \/ to = Str("")

-----------------------------------------------------------------------------
(* Either format's accessors, by the format of the shot *)

Azm(sh)    == IF sh.fmt = "compass" THEN Compass_azm(sh) ELSE PocketTopo_azm(sh)
Inc(sh)    == IF sh.fmt = "compass" THEN Compass_inc(sh) ELSE PocketTopo_inc(sh)
Length(sh) == IF sh.fmt = "compass" THEN Compass_length(sh) ELSE PocketTopo_length(sh)

-----------------------------------------------------------------------------
(* Values the variables of the other specifications rest at *)

IdleShot   == shot = CompassShot(0)
IdleCoerce == ckey = "" /\ cval = None /\ cout = None
IdleSurvey == survey = [fmt |-> "compass", declination |-> None, shots |-> <<>>, adds |-> 0]
IdleParse  == header = <<>> /\ lines = <<>> /\ parsed = <<>> /\ pstatus = "idle"
IdleConv   == /\ insurvey = [fmt |-> "pockettopo", declination |-> Num(0),
                            shots |-> <<>>, adds |-> 0]
              /\ opts = [exclude_splays |-> FALSE, calculate_lrud |-> FALSE]
              /\ outshots = <<>> /\ cpos = 0 /\ cstatus = "idle"
IdleMak    == mak = [status |-> "idle"]
IdleDat    == dat = [status |-> "idle"]
IdleTxt    == txt = [status |-> "idle"]
IdleFile   == file = [status |-> "idle"]
IdleJob    == job = [status |-> "idle"]
IdleExt    == IdleMak /\ IdleDat /\ IdleTxt /\ IdleFile /\ IdleJob

-----------------------------------------------------------------------------
(* SpecShot: a Shot of either format is built and its items are set *)

Declinations   == {0, 850, -1100}
AzmReadings    == {0, 700, 18900, 35950}
IncReadings    == {-400, 350, 9000}
LengthReadings == {0, 1570}
StationNames   == {"A", "B"}

\* The values a caller may store under a key of a Shot.
ItemValues(fmt, k) ==
    {None} \cup
    CASE k \in {"BEARING", "AZM2", "AZM"} -> {Num(n) : n \in AzmReadings}
      [] k \in {"INC", "INC2"}            -> {Num(n) : n \in IncReadings}
      [] k = "LENGTH"                     -> {Num(n) : n \in LengthReadings}
      [] k = "FROM"                       -> {Str(n) : n \in StationNames}
      [] k = "TO"                         -> {Str(n) : n \in StationNames \cup {""}}

ShotInit ==
    /\ shot = CompassShot(0)
    /\ IdleCoerce /\ IdleSurvey /\ IdleParse /\ IdleConv /\ IdleExt

\* Shot(declination=d) of davies.compass
NewCompassShot ==
    /\ \E d \in Declinations : shot' = CompassShot(d)
    /\ UNCHANGED <<extVars, coerceVars, surveyVars, parseVars, convVars>>

\* Shot(declination=d) of davies.pockettopo
NewPocketTopoShot ==
    /\ \E d \in Declinations : shot' = PocketTopoShot(d)
    /\ UNCHANGED <<extVars, coerceVars, surveyVars, parseVars, convVars>>

\* shot[k] = v
SetItem ==
    /\ \E k \in DOMAIN shot.f : \E v \in ItemValues(shot.fmt, k) :
          shot' = [shot EXCEPT !.f[k] = v]
    /\ UNCHANGED <<extVars, coerceVars, surveyVars, parseVars, convVars>>

ShotNext == NewCompassShot \/ NewPocketTopoShot \/ SetItem

SpecShot == ShotInit /\ [][ShotNext]_vars

Has(sh, k) == k \in DOMAIN sh.f /\ sh.f[k].t = "num"

\* C1: the corrected azimuth of a Compass Shot is the average of BEARING and
\* the reversed AZM2, (AZM2 + 180) mod 360, plus the declination when both are
\* present, BEARING plus the declination when only BEARING is present, and
\* the reversed AZM2 plus the declination when only AZM2 is present.
C1_CorrectedAzimuth ==
    shot.fmt = "compass" =>
        LET b == shot.f["BEARING"].n
            a == shot.f["AZM2"].n
            d == shot.declination
        IN  /\ Has(shot, "BEARING") /\ Has(shot, "AZM2") =>
                 Compass_azm(shot) = Num(((b + ((a + 18000) % 36000)) \div 2) + d)
            /\ Has(shot, "BEARING") /\ ~Has(shot, "AZM2") =>
                 Compass_azm(shot) = Num(b + d)
            /\ ~Has(shot, "BEARING") /\ Has(shot, "AZM2") =>
                 Compass_azm(shot) = Num(((a + 18000) % 36000) + d)

\* The example of the claim: declination 8.5, BEARING 7, AZM2 189 gives 16.5.
C1_Witness ==
    /\ shot.fmt = "compass" /\ shot.declination = 850
    /\ shot.f["BEARING"] = Num(700) /\ shot.f["AZM2"] = Num(18900)
    /\ Compass_azm(shot) = Num(1650)

\* C2: the corrected inclination of a Compass Shot is (INC - INC2) / 2 when
\* both are present, INC when only INC is present, and -1 * INC2 when only
\* the backsight INC2 is present.
C2_CorrectedInclination ==
    shot.fmt = "compass" =>
        LET i == shot.f["INC"].n
            j == shot.f["INC2"].n
        IN  /\ Has(shot, "INC") /\ Has(shot, "INC2") =>
                 Compass_inc(shot) = Num((i - j) \div 2)
            /\ Has(shot, "INC") /\ ~Has(shot, "INC2") => Compass_inc(shot) = Num(i)
            /\ ~Has(shot, "INC") /\ Has(shot, "INC2") => Compass_inc(shot) = Num(0 - j)

\* The cases of the claim: INC -4, INC2 3.5 gives -3.75; and a lone backsight.
C2_Witness ==
    /\ shot.fmt = "compass"
    /\ \/ /\ shot.f["INC"] = Num(-400) /\ shot.f["INC2"] = Num(350)
          /\ Compass_inc(shot) = Num(-375)
          /\ shot.f["BEARING"] = Num(700)
       \/ /\ ~Has(shot, "INC") /\ shot.f["INC2"] = Num(350)
          /\ Compass_inc(shot) = Num(-350)
          /\ shot.f["BEARING"] = Num(18900)

\* The readings that a corrected accessor draws on, by format.
Readings(sh, q) ==
    CASE q = "azm"    -> IF sh.fmt = "compass" THEN {"BEARING", "AZM2"} ELSE {"AZM"}
      [] q = "inc"    -> IF sh.fmt = "compass" THEN {"INC", "INC2"} ELSE {"INC"}
      [] q = "length" -> {"LENGTH"}

Accessor(sh, q) ==
    CASE q = "azm" -> Azm(sh) [] q = "inc" -> Inc(sh) [] q = "length" -> Length(sh)

\* C3: a Shot of either format that holds no reading for a quantity returns
\* the absent marker, never a number, from the accessor of that quantity,
\* whatever its declination.
C3_AbsentMarker ==
    \A q \in {"azm", "inc", "length"} :
        (\A k \in Readings(shot, q) : ~Has(shot, k)) => Accessor(shot, q) = None

-----------------------------------------------------------------------------
(* Text: Python str is a TLA+ string; Len, SubSeq and \o act on it *)

Char(s, i) == SubSeq(s, i, i)

\* The white space of str.split() and str.strip().
IsSpace(c) == c \in {" ", "\t", "\n", "\r", "\f"}

Digits == <<"0", "1", "2", "3", "4", "5", "6", "7", "8", "9">>

IsDigit(c) == \E i \in 1..10 : Digits[i] = c

DigitVal(c) == (CHOOSE i \in 1..10 : Digits[i] = c) - 1

AllDigits(s) == \A i \in 1..Len(s) : IsDigit(Char(s, i))

RECURSIVE ToNat(_)
ToNat(s) == IF s = "" THEN 0
            ELSE 10 * ToNat(SubSeq(s, 1, Len(s) - 1)) + DigitVal(Char(s, Len(s)))

\* The position of the first "." of s, or 0.
RECURSIVE DotAt(_, _)
DotAt(s, i) == IF i > Len(s) THEN 0 ELSE IF Char(s, i) = "." THEN i ELSE DotAt(s, i + 1)

\* float(s) of a decimal literal: an optional sign, digits with at most one
\* point and at least one digit.  Any other text raises ValueError.  The value
\* is in hundredths; the literals of the model carry at most two decimals.
FloatOf(s) ==
    LET signed == Len(s) > 0 /\ Char(s, 1) \in {"-", "+"}
        body   == IF signed THEN SubSeq(s, 2, Len(s)) ELSE s
        dot    == DotAt(body, 1)
        whole  == IF dot = 0 THEN body ELSE SubSeq(body, 1, dot - 1)
        frac   == IF dot = 0 THEN "" ELSE SubSeq(body, dot + 1, Len(body))
        frac2  == SubSeq(frac \o "00", 1, 2)
        ok     == AllDigits(whole) /\ AllDigits(frac) /\ Len(whole) + Len(frac) > 0
        mag    == 100 * ToNat(whole) + ToNat(frac2)
    IN  IF ~ok THEN Raise("ValueError")
        ELSE IF signed /\ Char(s, 1) = "-" THEN Num(0 - mag) ELSE Num(mag)

-----------------------------------------------------------------------------
(* davies.compass.CompassSurveyParser._coerce *)

FLOAT_KEYS == {"LENGTH", "BEARING", "AZM2", "INC", "INC2", "LEFT", "RIGHT", "UP", "DOWN"}
INF_KEYS   == {"LEFT", "RIGHT", "UP", "DOWN"}

\* A plausible slip: the float conversion is tried before the passage
\* sentinels, so that they decode as ordinary numbers.
coerce_FloatFirst(key, val) ==
    IF val = Str("-999.00") THEN None
    ELSE IF key \in FLOAT_KEYS /\ val.t = "str" THEN FloatOf(val.s)
    ELSE IF key \in INF_KEYS /\ val \in {Str("-9.90"), Str("-9999.00")} THEN Inf
    ELSE val

\* float(val) raises ValueError on text that is no number and TypeError on
\* None; only TypeError is caught (and logged), after which val is returned.
coerce(key, val) ==
    IF val = Str("-999.00") THEN None
    ELSE IF key \in INF_KEYS /\ val \in {Str("-9.90"), Str("-9999.00")} THEN Inf
    ELSE IF key \in FLOAT_KEYS /\ val.t = "str" THEN FloatOf(val.s)
    ELSE val

-----------------------------------------------------------------------------
(* SpecCoerce: _coerce applied to a field name and a literal *)

CoerceKeys == FLOAT_KEYS \cup {"FROM", "TO", "FLAGS", "COMMENTS"}

Literals == {"-999.00", "-9.90", "-9999.00", "37.85", "307.0", "-23.0", "0",
             "+1.5", ".5", "abc", "12x", "1.2.3", "-", ""}

CoerceInputs == {Str(l) : l \in Literals} \cup {None}

CoerceInit ==
    /\ ckey \in CoerceKeys /\ cval \in CoerceInputs /\ cout = Missing
    /\ IdleShot /\ IdleSurvey /\ IdleParse /\ IdleConv /\ IdleExt

\* cout = _coerce(ckey, cval)
Coerce ==
    /\ cout = Missing
    /\ cout' = coerce(ckey, cval)
    /\ UNCHANGED <<ckey, cval, extVars, shotVars, surveyVars, parseVars, convVars>>

\* the caller moves on to the next (header, val) pair
CoerceNextPair ==
    /\ cout # Missing
    /\ ckey' \in CoerceKeys /\ cval' \in CoerceInputs /\ cout' = Missing
    /\ UNCHANGED <<extVars, shotVars, surveyVars, parseVars, convVars>>

CoerceNext == Coerce \/ CoerceNextPair

SpecCoerce == CoerceInit /\ [][CoerceNext]_vars

\* C4: for LEFT, RIGHT, UP, DOWN the literals "-9.90" and "-9999.00" decode to
\* positive infinity; "-999.00" decodes to absent for every numeric field; for
\* LENGTH, BEARING, AZM2, INC, INC2 the literals "-9.90" and "-9999.00" decode
\* to the numbers -9.9 and -9999.0.
C4_CoerceSentinels ==
    cout # Missing =>
        /\ ckey \in {"LEFT", "RIGHT", "UP", "DOWN"}
             /\ cval \in {Str("-9.90"), Str("-9999.00")} => cout = Inf
        /\ ckey \in FLOAT_KEYS /\ cval = Str("-999.00") => cout = None
        /\ ckey \in {"LENGTH", "BEARING", "AZM2", "INC", "INC2"} =>
             /\ cval = Str("-9.90") => cout = Num(-990)
             /\ cval = Str("-9999.00") => cout = Num(-999900)

\* A passage sentinel of an LRUD field has been coerced to infinity.
C4_Witness ==
    ckey = "DOWN" /\ cval = Str("-9999.00") /\ cout = Inf

-----------------------------------------------------------------------------
(* str.split, str.strip, str.startswith *)

RECURSIVE LStrip(_)
LStrip(s) == IF s # "" /\ IsSpace(Char(s, 1)) THEN LStrip(SubSeq(s, 2, Len(s))) ELSE s

RECURSIVE RStrip(_)
RStrip(s) == IF s # "" /\ IsSpace(Char(s, Len(s)))
             THEN RStrip(SubSeq(s, 1, Len(s) - 1)) ELSE s

Strip(s) == RStrip(LStrip(s))

StartsWith(s, p) == Len(s) >= Len(p) /\ SubSeq(s, 1, Len(p)) = p

\* The position of the first character of s at or after i that is white
\* space, or Len(s) + 1.
RECURSIVE SpaceAt(_, _)
SpaceAt(s, i) == IF i > Len(s) \/ IsSpace(Char(s, i)) THEN i ELSE SpaceAt(s, i + 1)

\* s.split(None, maxsplit): runs of white space separate the tokens; after
\* maxsplit splits the rest of the text, its leading white space dropped and
\* its trailing white space kept, is the last token.
RECURSIVE SplitMax(_, _)
SplitMax(s, maxsplit) ==
    LET t == LStrip(s)
        e == SpaceAt(t, 1)
    IN  IF t = "" THEN <<>>
        ELSE IF maxsplit <= 0 THEN <<t>>
        ELSE <<SubSeq(t, 1, e - 1)>> \o SplitMax(SubSeq(t, e, Len(t)), maxsplit - 1)

\* The position of the first occurrence of the one-character text c in s at
\* or after i, or 0.
RECURSIVE Find(_, _, _)
Find(s, c, i) == IF i > Len(s) THEN 0 ELSE IF Char(s, i) = c THEN i ELSE Find(s, c, i + 1)

-----------------------------------------------------------------------------
(* davies.compass.CompassSurveyParser.parse: the shot rows *)

Min(a, b) == IF a < b THEN a ELSE b

\* shot_vals of a row: the tokens, with a trailing blob turned into the two
\* values flags and comment.  exc names the exception of a flags blob that
\* the two-way unpacking of split('#', 1) cannot take.
ShotVals(hdr, shot_line) ==
    LET toks == SplitMax(shot_line, Len(hdr) - 2)
        lead == Len(hdr) - 2
    IN  IF Len(toks) > lead
        THEN LET flags_comment == toks[Len(toks)]
                 vals == SubSeq(toks, 1, Len(toks) - 1)
                 rest == SubSeq(flags_comment, 3, Len(flags_comment))
                 h    == Find(rest, "#", 1)
             IN  IF ~StartsWith(flags_comment, "#|")
                 THEN [exc |-> "",
                       vals |-> [i \in 1..Len(vals) |-> Str(vals[i])]
                                \o <<None, Str(Strip(flags_comment))>>]
                 ELSE IF h = 0
                 THEN [exc |-> "ValueError", vals |-> <<>>]
                 ELSE [exc |-> "",
                       vals |-> [i \in 1..Len(vals) |-> Str(vals[i])]
                                \o <<Str(SubSeq(rest, 1, h - 1)),
                                     Str(Strip(SubSeq(rest, h + 1, Len(rest))))>>]
        ELSE [exc |-> "", vals |-> [i \in 1..Len(toks) |-> Str(toks[i])]]

\* Shot([(header, _coerce(header, val)) for (header, val) in zip(...)]): the
\* Shot of a row, or the exception that _coerce or the unpacking raised.
RowShot(hdr, shot_line) ==
    LET sv   == ShotVals(hdr, shot_line)
        n    == Min(Len(hdr), Len(sv.vals))
        item == [i \in 1..n |-> coerce(hdr[i], sv.vals[i])]
        keys == {hdr[i] : i \in 1..n}
        last(k) == CHOOSE i \in 1..n : hdr[i] = k /\ \A j \in (i + 1)..n : hdr[j] # k
    IN  IF sv.exc # "" THEN [exc |-> sv.exc, shot |-> CompassShot(0)]
        ELSE IF \E i \in 1..n : item[i].t = "raise"
        THEN [exc |-> "ValueError", shot |-> CompassShot(0)]
        ELSE [exc |-> "",
              shot |-> [fmt |-> "compass", declination |-> 0,
                        f |-> [k \in keys |-> item[last(k)]]]]

\* sum([shot.length for shot in shots]): adding None (or text) to a number is
\* a TypeError.
RECURSIVE SumLengths(_)
SumLengths(lens) ==
    IF lens = <<>> THEN Num(0)
    ELSE LET init == SumLengths(SubSeq(lens, 1, Len(lens) - 1))
             x    == lens[Len(lens)]
         IN  IF init.t = "raise" THEN init
             ELSE IF x.t = "num" THEN Num(init.n + x.n)
             ELSE Raise("TypeError")

-----------------------------------------------------------------------------
(* SpecParse: the shot rows of a Compass survey record are read one by one *)

MaxRows == 2

Headers == { <<"FROM", "TO", "LENGTH", "LEFT", "FLAGS", "COMMENTS">>,
             <<"FROM", "TO", "LENGTH", "FLAGS", "COMMENTS">> }

Rows == { "A1 A2 37.85 -9.90",
          "A2 A3 12.00 1.50 wet crawl",
          "A3  A4 10.00 2.00 #|L#Disto shot",
          "A4 A5 abc 1.00",
          "A5 A6 5.00 0.50 -999.00",
          "A6 A7 5.00 0.50 tape  ",
          "A7 A8 -999.00 1.00",
          "A8 A9 7.00 x9 note",
          "A9 B1 3.00 1.00 #|P" }

RowSeqs == UNION {[1..n -> Rows] : n \in 1..MaxRows}

ParseInit ==
    /\ header \in Headers /\ lines \in RowSeqs
    /\ parsed = <<>> /\ pstatus = "parsing"
    /\ IdleShot /\ IdleCoerce /\ IdleSurvey /\ IdleConv /\ IdleExt

\* one turn of `for shot_line in shot_lines`, through survey.add_shot(shot);
\* an exception leaves parse() with the row that raised it still unread
ParseRow ==
    /\ pstatus = "parsing" /\ lines # <<>>
    /\ LET r == RowShot(header, Head(lines))
       IN  IF r.exc # ""
           THEN pstatus' = r.exc /\ UNCHANGED <<lines, parsed>>
           ELSE /\ parsed' = Append(parsed, [row |-> Head(lines), shot |-> r.shot])
                /\ lines' = Tail(lines)
                /\ UNCHANGED pstatus
    /\ UNCHANGED <<header, extVars, shotVars, coerceVars, surveyVars, convVars>>

\* after the last row: log.debug(..., survey.length, ...) and return survey
ParseReturn ==
    /\ pstatus = "parsing" /\ lines = <<>>
    /\ LET total == SumLengths([i \in 1..Len(parsed) |-> Compass_length(parsed[i].shot)])
       IN  pstatus' = IF total.t = "raise" THEN total.s ELSE "returned"
    /\ UNCHANGED <<header, lines, parsed, extVars, shotVars, coerceVars, surveyVars, convVars>>

ParseNext == ParseRow \/ ParseReturn

SpecParse == ParseInit /\ [][ParseNext]_vars

\* The tokens of a row that come before its trailing blob, and the blob.
LeadCount == Len(header) - 2
RowToks(row) == SplitMax(row, LeadCount)
HasBlob(row) == Len(RowToks(row)) > LeadCount
Blob(row)    == RowToks(row)[LeadCount + 1]

\* The row without its blob: the leading tokens alone.
RECURSIVE Join(_)
Join(toks) == IF toks = <<>> THEN ""
              ELSE IF Len(toks) = 1 THEN toks[1]
              ELSE toks[1] \o " " \o Join(Tail(toks))

\* The numeric fields of a row whose token is text that is no number.
BadFields(row) ==
    {i \in 1..Min(LeadCount, Len(RowToks(row))) :
        /\ header[i] \in FLOAT_KEYS
        /\ FloatOf(RowToks(row)[i]).t = "raise"}

\* C5: non-numeric text in a numeric field of a shot row does not raise: the
\* field keeps the raw text, the row and the rows after it are still read, and
\* the survey is returned.
C5_CoercionDoesNotRaise ==
    /\ \A i \in 1..Len(parsed) : \A j \in BadFields(parsed[i].row) :
          parsed[i].shot.f[header[j]] = Str(RowToks(parsed[i].row)[j])
    /\ (lines # <<>> /\ BadFields(Head(lines)) # {}) => pstatus = "parsing"

\* C8: a row whose trailing blob does not start with "#|" yields a shot with
\* no flags and with COMMENTS equal to the whole blob, embedded spaces kept
\* (the white space that ends the row is not part of the blob), and with its
\* leading fields decoded as for the same row without the blob.
C8_CommentOnlyBlob ==
    \A i \in 1..Len(parsed) :
        LET row == parsed[i].row
            sh  == parsed[i].shot
            bare == RowShot(header, Join(SubSeq(RowToks(row), 1, LeadCount)))
        IN  (HasBlob(row) /\ ~StartsWith(Blob(row), "#|")) =>
                /\ sh.f["FLAGS"] = None
                /\ sh.f["COMMENTS"] = Str(Strip(Blob(row)))
                /\ bare.exc = ""
                /\ \A j \in 1..LeadCount : sh.f[header[j]] = bare.shot.f[header[j]]

-----------------------------------------------------------------------------
(* Survey of either format: add_shot, length, total_length, __len__ *)

\* Survey(declination=d) of davies.compass (None when not given) and of
\* davies.pockettopo (0.0 when not given); adds counts the add_shot calls.
NewSurvey(fmt, d) == [fmt |-> fmt, declination |-> d, shots |-> <<>>, adds |-> 0]

\* davies.compass.Survey.add_shot: the shot is appended as it is.
Compass_add_shot(sv, sh) ==
    [sv EXCEPT !.shots = Append(@, sh), !.adds = @ + 1]

\* davies.pockettopo.Survey.add_shot: the survey's declination is applied to
\* the shot, then the shot is appended.
PocketTopo_add_shot(sv, sh) ==
    [sv EXCEPT !.shots = Append(@, [sh EXCEPT !.declination = sv.declination.n]),
               !.adds = @ + 1]

\* The shots that are splays (or that are not), in order.
RECURSIVE SelectShots(_, _)
SelectShots(shots, splays) ==
    IF shots = <<>> THEN <<>>
    ELSE LET rest == SelectShots(Tail(shots), splays)
         IN  IF PocketTopo_is_splay(Head(shots)) = splays
             THEN <<Head(shots)>> \o rest ELSE rest

\* davies.compass.Survey.length: the sum over every shot.
Compass_Survey_length(sv) ==
    SumLengths([i \in 1..Len(sv.shots) |-> Compass_length(sv.shots[i])])

\* davies.pockettopo.Survey.total_length: the sum over every shot.
PocketTopo_Survey_total_length(sv) ==
    SumLengths([i \in 1..Len(sv.shots) |-> PocketTopo_length(sv.shots[i])])

\* A plausible slip: the splays are not left out of the length.
PocketTopo_Survey_length_WithSplays(sv) == PocketTopo_Survey_total_length(sv)

\* davies.pockettopo.Survey.length: the sum over the shots that are no splay.
PocketTopo_Survey_length(sv) ==
    LET legs == SelectShots(sv.shots, FALSE)
    IN  SumLengths([i \in 1..Len(legs) |-> PocketTopo_length(legs[i])])

Survey_length(sv) ==
    IF sv.fmt = "compass" THEN Compass_Survey_length(sv) ELSE PocketTopo_Survey_length(sv)

\* len(survey)
Survey_len(sv) == Len(sv.shots)

-----------------------------------------------------------------------------
(* SpecSurvey: a Survey of either format is made and shots are added to it *)

MaxShots == 2

SurveyDeclinations == {0, 1118}

\* Compass shots as the parser or a caller makes them: BEARING, a LENGTH that
\* may be the no-data None, FLAGS absent or a text of flag letters.
CompassShotPool ==
    { [fmt |-> "compass", declination |-> d,
       f |-> [BEARING |-> Num(30700), LENGTH |-> l, FLAGS |-> fl]] :
      d \in SurveyDeclinations, l \in {None, Num(1000), Num(250)},
      fl \in {None, Str("L"), Str("X"), Str("P")} }

\* PocketTopo shots: legs (TO named) and splays (TO None or empty).
PocketTopoShotPool ==
    { [fmt |-> "pockettopo", declination |-> d,
       f |-> [FROM |-> Str("A"), TO |-> to, AZM |-> Num(30700), LENGTH |-> l]] :
      d \in SurveyDeclinations, l \in {Missing, None, Num(1000), Num(250)},
      to \in {None, Str(""), Str("B")} }

SurveyInit ==
    /\ survey = NewSurvey("compass", None)
    /\ IdleShot /\ IdleCoerce /\ IdleParse /\ IdleConv /\ IdleExt

\* davies.compass.Survey(declination=...)
NewCompassSurvey ==
    /\ \E d \in {None} \cup {Num(x) : x \in SurveyDeclinations} :
          survey' = NewSurvey("compass", d)
    /\ UNCHANGED <<extVars, shotVars, coerceVars, parseVars, convVars>>

\* davies.pockettopo.Survey(declination=...)
NewPocketTopoSurvey ==
    /\ \E d \in SurveyDeclinations : survey' = NewSurvey("pockettopo", Num(d))
    /\ UNCHANGED <<extVars, shotVars, coerceVars, parseVars, convVars>>

AddCompassShot ==
    /\ survey.fmt = "compass" /\ Len(survey.shots) < MaxShots
    /\ \E sh \in CompassShotPool : survey' = Compass_add_shot(survey, sh)
    /\ UNCHANGED <<extVars, shotVars, coerceVars, parseVars, convVars>>

AddPocketTopoShot ==
    /\ survey.fmt = "pockettopo" /\ Len(survey.shots) < MaxShots
    /\ \E sh \in PocketTopoShotPool : survey' = PocketTopo_add_shot(survey, sh)
    /\ UNCHANGED <<extVars, shotVars, coerceVars, parseVars, convVars>>

SurveyNext ==
    NewCompassSurvey \/ NewPocketTopoSurvey \/ AddCompassShot \/ AddPocketTopoShot

SpecSurvey == SurveyInit /\ [][SurveyNext]_vars

\* A shot that the claim counts as excluded from length: a Compass shot whose
\* FLAGS carry L or X, a PocketTopo splay.
Excluded(sh) ==
    IF sh.fmt = "compass"
    THEN LET fl == Get(sh, "FLAGS", None)
         IN  fl.t = "str" /\ (Find(fl.s, "L", 1) > 0 \/ Find(fl.s, "X", 1) > 0)
    ELSE PocketTopo_is_splay(sh)

Included(sh) == ~Excluded(sh)

\* The sum of the corrected lengths of the shots, of the included ones only
\* or of all of them.
RECURSIVE SumOver(_, _)
SumOver(shots, includedOnly) ==
    IF shots = <<>> THEN 0
    ELSE SumOver(Tail(shots), includedOnly)
         + (IF includedOnly => Included(Head(shots))
            THEN Length(Head(shots)).n ELSE 0)

AllMeasured(shots) == \A i \in 1..Len(shots) : Length(shots[i]).t = "num"

\* C6: after any add_shot calls the length of a survey of either format is
\* the sum of the corrected lengths of its included shots only (stated for
\* the surveys whose shots all have a length); the excluded shots stay in
\* the shot list and in len(survey).
C6_LengthOfIncludedOnly ==
    /\ Survey_len(survey) = survey.adds
    /\ AllMeasured(survey.shots) =>
          Survey_length(survey) = Num(SumOver(survey.shots, TRUE))

\* C6 as amended: a PocketTopo survey's length is the sum over its shots that
\* are no splay; a Compass survey's length is the sum over all of its shots,
\* flagged L or X or not, and raises TypeError when a shot has no LENGTH;
\* every added shot stays in the shot list and in len(survey).
C6_LengthAmended ==
    /\ Survey_len(survey) = survey.adds
    /\ survey.fmt = "pockettopo" =>
          LET legs == SelectShots(survey.shots, FALSE)
          IN  IF AllMeasured(legs)
              THEN Survey_length(survey) = Num(SumOver(survey.shots, TRUE))
              ELSE Survey_length(survey) = Raise("TypeError")
    /\ survey.fmt = "compass" =>
          IF AllMeasured(survey.shots)
          THEN Survey_length(survey) = Num(SumOver(survey.shots, FALSE))
          ELSE Survey_length(survey) = Raise("TypeError")

\* A Compass survey with a shot flagged L after an unflagged one: the flagged
\* shot is in the shot list and its length is counted.
C6_Witness ==
    /\ survey.fmt = "compass" /\ Len(survey.shots) = 2 /\ Survey_len(survey) = 2
    /\ Included(survey.shots[1]) /\ Excluded(survey.shots[2])
    /\ Get(survey.shots[2], "FLAGS", None) = Str("L")
    /\ Length(survey.shots[1]) = Num(1000) /\ Length(survey.shots[2]) = Num(250)
    /\ Survey_length(survey) = Num(1250)

\* C7: every shot of a survey's shot list carries the declination of the
\* survey, so that its corrected azimuth is the raw azimuth plus the survey's
\* declination.
C7_ShotCarriesSurveyDeclination ==
    \A i \in 1..Len(survey.shots) :
        /\ Num(survey.shots[i].declination) = survey.declination
        /\ survey.declination.t = "num" =>
              Azm(survey.shots[i]) = Num(30700 + survey.declination.n)

-----------------------------------------------------------------------------
(* davies.survey_math and the parts of the library that the converter uses  *)
(* but that are not in the sources at hand: they are modelled from the     *)
(* specification (section 4.4) and from the converter's own comments.      *)

Abs(x) == IF x < 0 THEN 0 - x ELSE x

\* cos and sin of the inclinations of the model, in thousandths.
CosMilli(inc) ==
    CASE Abs(inc) = 0    -> 1000
      [] Abs(inc) = 1000 -> 985
      [] Abs(inc) = 3000 -> 866
      [] Abs(inc) = 4500 -> 707
      [] Abs(inc) = 6000 -> 500
      [] Abs(inc) = 9000 -> 0

SinMilli(inc) ==
    (IF inc < 0 THEN -1 ELSE 1) *
    CASE Abs(inc) = 0    -> 0
      [] Abs(inc) = 1000 -> 174
      [] Abs(inc) = 3000 -> 500
      [] Abs(inc) = 4500 -> 707
      [] Abs(inc) = 6000 -> 866
      [] Abs(inc) = 9000 -> 1000

\* hd(inc, sd): horizontal projected distance, distance x cos(inclination).
hd(inc, sd) == (sd * CosMilli(inc)) \div 1000

\* vd(inc, sd): vertical projected distance as a magnitude.
vd(inc, sd) == Abs(sd * SinMilli(inc)) \div 1000

\* angle_delta(a1, a2): the angular difference, wrapping at 360 degrees.
angle_delta(a1, a2) == 18000 - Abs(Abs(a1 - a2) - 18000)

\* metres to feet
m2ft(m) == (m * 328084) \div 100000

\* insurvey.splays[station]: the splays of the survey recorded at a station,
\* in order.
RECURSIVE SplaysAt(_, _)
SplaysAt(shots, station) ==
    IF shots = <<>> THEN <<>>
    ELSE LET rest == SplaysAt(Tail(shots), station)
         IN  IF PocketTopo_is_splay(Head(shots)) /\ Head(shots).f["FROM"] = station
             THEN <<Head(shots)>> \o rest ELSE rest

\* compass.Exclude.LENGTH and compass.Exclude.PLOT as flag letters; a tuple
\* of flags is the text of its letters.
ExcludeLENGTH == "L"
ExcludePLOT   == "P"
Tuple(s) == [t |-> "tuple", n |-> 0, s |-> s]

-----------------------------------------------------------------------------
(* examples/pockettopo2compass.py *)

LRUD_DELTA == 60

RANDINT_MAX == 1000

\* delta / 2 of Python 2 integers, in hundredths of a degree
HalfDelta == (LRUD_DELTA \div 2) * 100

SeqToSet(q) == {q[i] : i \in 1..Len(q)}

MaxOf(S) == CHOOSE x \in S : \A y \in S : y <= x

\* A plausible slip: the whole cone angle is allowed on either side.
find_candidate_splays_FullCone(splays, azm, inc) ==
    {sp \in SeqToSet(splays) :
        /\ angle_delta(sp.f["AZM"].n, azm) <= LRUD_DELTA * 100
        /\ angle_delta(sp.f["INC"].n, inc) <= LRUD_DELTA * 100}

find_candidate_splays(splays, azm, inc) ==
    {sp \in SeqToSet(splays) :
        /\ angle_delta(sp.f["AZM"].n, azm) <= HalfDelta
        /\ angle_delta(sp.f["INC"].n, inc) <= HalfDelta}

find_candidate_vert_splays(splays, inc) ==
    IF inc = 9000 THEN {sp \in SeqToSet(splays) : sp.f["INC"].n >= 3000}
    ELSE {sp \in SeqToSet(splays) : sp.f["INC"].n <= -3000}

\* A plausible slip: DOWN is taken as the signed vertical offset of the
\* chosen splay instead of its magnitude.
Lrud_SignedDown(splays, azm) ==
    LET left_azm  == (azm - 9000) % 36000
        right_azm == (azm + 9000) % 36000
        lc == find_candidate_splays(splays, left_azm, 0)
        rc == find_candidate_splays(splays, right_azm, 0)
        uc == find_candidate_vert_splays(splays, 9000)
        dc == find_candidate_vert_splays(splays, -9000)
        HD(sp) == hd(sp.f["INC"].n, sp.f["LENGTH"].n)
        VD(sp) == vd(sp.f["INC"].n, sp.f["LENGTH"].n)
    IN  [left  |-> IF lc # {} THEN MaxOf({HD(sp) : sp \in lc}) ELSE 0,
         right |-> IF rc # {} THEN MaxOf({HD(sp) : sp \in rc}) ELSE 0,
         up    |-> IF uc # {} THEN MaxOf({VD(sp) : sp \in uc}) ELSE 0,
         down  |-> IF dc # {} THEN 0 - MaxOf({VD(sp) : sp \in dc}) ELSE 0]

\* The LRUD values that shot2shot computes from the splays at the FROM
\* station of a shot with raw azimuth azm: for each dimension the greatest
\* projected distance among its candidates, 0 without a candidate.
Lrud(splays, azm) ==
    LET left_azm  == (azm - 9000) % 36000
        right_azm == (azm + 9000) % 36000
        lc == find_candidate_splays(splays, left_azm, 0)
        rc == find_candidate_splays(splays, right_azm, 0)
        uc == find_candidate_vert_splays(splays, 9000)
        dc == find_candidate_vert_splays(splays, -9000)
        HD(sp) == hd(sp.f["INC"].n, sp.f["LENGTH"].n)
        VD(sp) == vd(sp.f["INC"].n, sp.f["LENGTH"].n)
    IN  [left  |-> IF lc # {} THEN MaxOf({HD(sp) : sp \in lc}) ELSE 0,
         right |-> IF rc # {} THEN MaxOf({HD(sp) : sp \in rc}) ELSE 0,
         up    |-> IF uc # {} THEN MaxOf({VD(sp) : sp \in uc}) ELSE 0,
         down  |-> IF dc # {} THEN MaxOf({VD(sp) : sp \in dc}) ELSE 0]

\* Whether shot2shot computes LRUD values for the shot.
ComputesLrud(sv, inshot, calculate_lrud) ==
    /\ calculate_lrud
    /\ ~PocketTopo_is_splay(inshot)
    /\ SplaysAt(sv.shots, inshot.f["FROM"]) # <<>>

\* '%03d' % n
RECURSIVE NatStr(_)
NatStr(n) == IF n < 10 THEN Digits[n + 1]
             ELSE NatStr(n \div 10) \o Digits[(n % 10) + 1]

Pad3(n) == IF n < 10 THEN "00" \o NatStr(n)
           ELSE IF n < 100 THEN "0" \o NatStr(n) ELSE NatStr(n)

\* A plausible slip: the invented name reuses the FROM station's own name.
SplayName_Bare(from, r) == from

\* '%s.s%03d' % (FROM, r)
SplayName(from, r) == from \o ".s" \o Pad3(r)

ShotOrder == <<"FROM", "TO", "LENGTH", "BEARING", "INC", "LEFT", "UP", "DOWN",
               "RIGHT", "FLAGS", "COMMENTS">>

\* shot2shot(insurvey, inshot, calculate_lrud), r being the number that
\* random.randint(0, 1000) returns: the Compass Shot, or the AssertionError
\* of the check of the LRUD values.
shot2shot(sv, inshot, calculate_lrud, r) ==
    LET splays == SplaysAt(sv.shots, inshot.f["FROM"])
        doLrud == ComputesLrud(sv, inshot, calculate_lrud)
        v      == Lrud(splays, inshot.f["AZM"].n)
        to     == inshot.f["TO"]
        dim(x) == IF doLrud THEN Num(m2ft(x)) ELSE Num(-990)
    IN  IF doLrud /\ ~(v.left >= 0 /\ v.right >= 0 /\ v.up >= 0 /\ v.down >= 0)
        THEN [exc |-> "AssertionError", shot |-> CompassShot(0)]
        ELSE [exc |-> "",
              shot |->
                [fmt |-> "compass", declination |-> 0, order |-> ShotOrder,
                 f |-> [FROM     |-> inshot.f["FROM"],
                        TO       |-> IF IsNone(to) \/ to = Str("")
                                     THEN Str(SplayName(inshot.f["FROM"].s, r))
                                     ELSE to,
                        LENGTH   |-> Num(m2ft(PocketTopo_length(inshot).n)),
                        BEARING  |-> inshot.f["AZM"],
                        INC      |-> PocketTopo_inc(inshot),
                        LEFT     |-> dim(v.left),
                        UP       |-> dim(v.up),
                        DOWN     |-> dim(v.down),
                        RIGHT    |-> dim(v.right),
                        FLAGS    |-> IF PocketTopo_is_splay(inshot)
                                     THEN Tuple(ExcludeLENGTH \o ExcludePLOT)
                                     ELSE Tuple(""),
                        COMMENTS |-> inshot.f["COMMENT"]]]]

-----------------------------------------------------------------------------
(* SpecConv: pockettopo2compass converts the shots of a survey one by one *)

MaxConvShots == 2

\* A PocketTopo shot as the parser makes it and Survey.add_shot keeps it.
PShot(from, to, length, azm, inc) ==
    [fmt |-> "pockettopo", declination |-> 850,
     f |-> [FROM |-> Str(from), TO |-> to, LENGTH |-> Num(length),
            AZM |-> Num(azm), INC |-> Num(inc), COMMENT |-> None]]

\* Legs, one of them to a station that bears a name of the invented form,
\* and splays to the left, right, up and down of the legs from A, at the
\* edges of the cones and outside them.
ConvLegs ==
    { PShot("A", Str("B"), 1000, 0, 0),
      PShot("A", Str("C"), 1200, 35000, 1000),
      PShot("B", Str("A.s007"), 800, 9000, 0) }

ConvSplays ==
    { PShot("A", None, 500, 27000, 0),
      PShot("A", None, 200, 27000, 3000),
      PShot("A", None, 300, 24000, -1000),
      PShot("A", None, 400, 9000, 0),
      PShot("A", None, 900, 12100, 0),
      PShot("A", Str(""), 250, 0, 9000),
      PShot("A", None, 600, 0, 4500),
      PShot("A", None, 350, 0, -9000),
      PShot("A", None, 700, 18000, -4500),
      PShot("A", None, 100, 1000, -3000),
      PShot("B", None, 0, 35000, 0) }

ConvPool == ConvLegs \cup ConvSplays

\* The numbers that random.randint(0, 1000) is taken to return: both ends of
\* its range and two numbers between them.
RandSample == {0, 7, 999, RANDINT_MAX}

ConvInit ==
    /\ \E n \in 1..MaxConvShots : \E q \in [1..n -> ConvPool] :
          insurvey = [fmt |-> "pockettopo", declination |-> Num(850),
                      shots |-> q, adds |-> n]
    /\ opts \in [exclude_splays : BOOLEAN, calculate_lrud : BOOLEAN]
    /\ outshots = <<>> /\ cpos = 1 /\ cstatus = "converting"
    /\ IdleShot /\ IdleCoerce /\ IdleSurvey /\ IdleParse /\ IdleExt

\* `if inshot.is_splay and exclude_splays: continue`
SkipSplay ==
    /\ cstatus = "converting" /\ cpos <= Len(insurvey.shots)
    /\ PocketTopo_is_splay(insurvey.shots[cpos]) /\ opts.exclude_splays
    /\ cpos' = cpos + 1
    /\ UNCHANGED <<insurvey, opts, outshots, cstatus,
                   extVars, shotVars, coerceVars, surveyVars, parseVars>>

\* outshot = shot2shot(insurvey, inshot, calculate_lrud);
\* outsurvey.add_shot(outshot)
ConvertShot ==
    /\ cstatus = "converting" /\ cpos <= Len(insurvey.shots)
    /\ ~(PocketTopo_is_splay(insurvey.shots[cpos]) /\ opts.exclude_splays)
    /\ \E r \in RandSample :
          LET res == shot2shot(insurvey, insurvey.shots[cpos], opts.calculate_lrud, r)
          IN  IF res.exc # ""
              THEN cstatus' = res.exc /\ UNCHANGED <<outshots, cpos>>
              ELSE /\ outshots' = Append(outshots, [src |-> cpos, shot |-> res.shot])
                   /\ cpos' = cpos + 1
                   /\ UNCHANGED cstatus
    /\ UNCHANGED <<insurvey, opts, extVars, shotVars, coerceVars, surveyVars, parseVars>>

\* the end of `for inshot in insurvey`: outfile.add_survey(outsurvey)
FinishSurvey ==
    /\ cstatus = "converting" /\ cpos > Len(insurvey.shots)
    /\ cstatus' = "done"
    /\ UNCHANGED <<insurvey, opts, outshots, cpos,
                   extVars, shotVars, coerceVars, surveyVars, parseVars>>

ConvNext == SkipSplay \/ ConvertShot \/ FinishSurvey

SpecConv == ConvInit /\ [][ConvNext]_vars

\* The names of the real stations of the source survey: every FROM and TO.
RealStations ==
    { insurvey.shots[i].f[k].s :
        i \in 1..Len(insurvey.shots), k \in {"FROM", "TO"} } \ {""}

InShot(o) == insurvey.shots[o.src]

InventedForm(name, from) ==
    LET p   == from \o ".s"
        suf == SubSeq(name, Len(p) + 1, Len(name))
    IN  /\ StartsWith(name, p)
        /\ Len(suf) >= 3 /\ AllDigits(suf)
        /\ ToNat(suf) <= 1000
        /\ Len(suf) = 3 \/ suf = "1000"

-----------------------------------------------------------------------------
(* More of str: split on a separator, strip(chars), endswith, splitlines *)

\* F applied to the value of v: v is computed once, however often F uses it.
Bind(v, F(_)) == CHOOSE r \in {F(x) : x \in {v}} : TRUE

EndsWith(s, p) == Len(s) >= Len(p) /\ SubSeq(s, Len(s) - Len(p) + 1, Len(s)) = p

\* The position of the first occurrence of the text p in s at or after i,
\* or 0.
FindSub(s, p, i) ==
    LET last   == Len(s) - Len(p) + 1
        hit(j) == SubSeq(s, j, j + Len(p) - 1) = p
    IN  IF \E j \in i..last : hit(j)
        THEN CHOOSE j \in i..last : hit(j) /\ \A k \in i..(j - 1) : ~hit(k)
        ELSE 0

\* s.split(sep, maxsplit) for a non-empty separator; maxsplit < 0 is no limit.
RECURSIVE SplitSep(_, _, _)
SplitSep(s0, sep, maxsplit0) ==
    Bind(<<s0, maxsplit0>>, LAMBDA a :
        LET s        == a[1]
            maxsplit == a[2]
        IN  Bind(FindSub(s, sep, 1), LAMBDA h :
                IF h = 0 \/ maxsplit = 0 THEN <<s>>
                ELSE <<SubSeq(s, 1, h - 1)>>
                     \o SplitSep(SubSeq(s, h + Len(sep), Len(s)), sep, maxsplit - 1)))

\* s.lstrip(chars), s.rstrip(chars), s.strip(chars): every leading (trailing)
\* character that is a member of chars is dropped.
RECURSIVE LStripChars(_, _)
LStripChars(s0, chars) ==
    Bind(s0, LAMBDA s :
        IF s # "" /\ Char(s, 1) \in chars
        THEN LStripChars(SubSeq(s, 2, Len(s)), chars) ELSE s)

RECURSIVE RStripChars(_, _)
RStripChars(s0, chars) ==
    Bind(s0, LAMBDA s :
        IF s # "" /\ Char(s, Len(s)) \in chars
        THEN RStripChars(SubSeq(s, 1, Len(s) - 1), chars) ELSE s)

StripChars(s, chars) == RStripChars(LStripChars(s, chars), chars)

\* The characters of a text, as a set.
CharsOf(s) == {Char(s, i) : i \in 1..Len(s)}

\* s.splitlines(): the lines of s without their line ends ("\n", "\r\n" or
\* "\r"); a line end that closes the text opens no further line.
RECURSIVE SplitLines(_)
SplitLines(s0) ==
    Bind(s0, LAMBDA s :
        Bind(<<FindSub(s, "\n", 1), FindSub(s, "\r", 1)>>, LAMBDA nr :
            LET n  == nr[1]
                r  == nr[2]
                e  == IF n = 0 THEN r ELSE IF r = 0 THEN n ELSE Min(n, r)
                e2 == IF e = r /\ e < Len(s) /\ Char(s, e + 1) = "\n" THEN e + 1 ELSE e
            IN  IF s = "" THEN <<>>
                ELSE IF e = 0 THEN <<s>>
                ELSE <<SubSeq(s, 1, e - 1)>> \o SplitLines(SubSeq(s, e2 + 1, Len(s)))))

-----------------------------------------------------------------------------
(* davies.compass.CompassSurveyParser: _parse_date and parse *)

\* s.split(): every token of s, runs of white space separating them.
SplitWs(s) == SplitMax(s, Len(s))

DateOf(y, m, d) == [t |-> "date", n |-> (y * 10000) + (m * 100) + d, s |-> ""]

DaysIn(m, y) ==
    IF m \in {4, 6, 9, 11} THEN 30
    ELSE IF m # 2 THEN 31
    ELSE IF y % 4 = 0 /\ (y % 100 # 0 \/ y % 400 = 0) THEN 29 ELSE 28

\* strptime with '%m %d %Y', then with '%m %d %y': month and day of one or
\* two digits, a year of four digits or, failing that, of two digits (69 to 99
\* fall in the 1900s, 00 to 68 in the 2000s); ParseException when neither
\* pattern fits.
parse_date(datestr) ==
    Bind(SplitWs(Strip(datestr)), LAMBDA toks :
    LET ok   == /\ Len(toks) = 3
                /\ \A i \in 1..3 : toks[i] # "" /\ AllDigits(toks[i])
                /\ Len(toks[1]) <= 2 /\ Len(toks[2]) <= 2 /\ Len(toks[3]) \in {2, 4}
        m    == ToNat(toks[1])
        d    == ToNat(toks[2])
        y0   == ToNat(toks[3])
        y    == IF Len(toks[3]) = 4 THEN y0 ELSE IF y0 >= 69 THEN 1900 + y0 ELSE 2000 + y0
    IN  IF ok /\ m \in 1..12 /\ y >= 1 /\ d >= 1 /\ d <= DaysIn(m, y)
        THEN DateOf(y, m, d) ELSE Raise("ParseException"))

\* What parse() gives back: exc names the exception that left it ("" when it
\* returned), none tells that it returned None, sv is the Survey.
ParseRaised(e) == [exc |-> e, none |-> FALSE, sv |-> [name |-> ""]]
ParseNone      == [exc |-> "", none |-> TRUE, sv |-> [name |-> ""]]

\* The Shots of the rows, in order, or the first exception a row raised.
RECURSIVE RowShots(_, _)
RowShots(hdr, rows) ==
    IF rows = <<>> THEN [exc |-> "", shots |-> <<>>]
    ELSE Bind(RowShot(hdr, Head(rows)), LAMBDA r :
            IF r.exc # "" THEN [exc |-> r.exc, shots |-> <<>>]
            ELSE Bind(RowShots(hdr, Tail(rows)), LAMBDA t :
                    IF t.exc # "" THEN t
                    ELSE [exc |-> "", shots |-> <<r.shot>> \o t.shots]))

\* first_line.strip('SURVEY NAME:').strip(): every leading and trailing
\* character of the line that occurs in the label is dropped.
SurveyNameOf(first_line) ==
    Strip(StripChars(first_line, CharsOf("SURVEY NAME:")))

\* The record from its date line on (rest), once the name is read.
SurveyRecord(cave_name, name, rest) ==
    Bind(SplitSep(rest[1], "SURVEY DATE:", 1), LAMBDA datepieces :
        IF Len(datepieces) < 2 THEN ParseRaised("IndexError")
        ELSE
        Bind(SplitSep(datepieces[2], "COMMENT:", -1), LAMBDA date_comment_toks :
        Bind(parse_date(date_comment_toks[1]), LAMBDA date :
            IF date.t = "raise" THEN ParseRaised(date.s)
            ELSE
            Bind(SplitWs(rest[6]), LAMBDA shot_header :
            Bind(RowShots(shot_header, SubSeq(rest, 8, Len(rest))), LAMBDA rows :
                LET comment == IF Len(date_comment_toks) > 1
                               THEN Strip(date_comment_toks[2]) ELSE ""
                    members == SplitSep(rest[3], ",", -1)
                    team    == [i \in 1..Len(members) |-> Strip(members[i])]
                    total   == SumLengths([i \in 1..Len(rows.shots) |->
                                             Compass_length(rows.shots[i])])
                IN  IF rows.exc # "" THEN ParseRaised(rows.exc)
                    ELSE IF total.t = "raise" THEN ParseRaised(total.s)
                    ELSE [exc |-> "", none |-> FALSE,
                          sv |-> [fmt |-> "compass", declination |-> None,
                                  shots |-> rows.shots, adds |-> Len(rows.shots),
                                  name |-> name, date |-> date, comment |-> comment,
                                  team |-> team, cave_name |-> cave_name,
                                  shot_header |-> shot_header]])))))

CompassSurveyParser_parse(survey_str) ==
    IF survey_str = "" THEN ParseNone
    ELSE
    Bind(SplitLines(survey_str), LAMBDA lines0 :
        IF Len(lines0) < 10 THEN ParseRaised("ParseException")
        ELSE
        Bind(Strip(lines0[1]), LAMBDA first_line :
            IF StartsWith(first_line, "SURVEY NAME:")
            THEN SurveyRecord("", SurveyNameOf(first_line), Tail(lines0))
            ELSE Bind(SplitSep(lines0[2], "SURVEY NAME:", 1), LAMBDA namepieces :
                    IF Len(namepieces) < 2 THEN ParseRaised("IndexError")
                    ELSE SurveyRecord(first_line, Strip(namepieces[2]),
                                      SubSeq(lines0, 3, Len(lines0))))))

-----------------------------------------------------------------------------
(* davies.compass: name_from_filename, DatFile, CompassDatParser.parse *)

\* The position of the last occurrence of the one-character text c in s, or 0.
RFind(s, c) ==
    IF \E j \in 1..Len(s) : Char(s, j) = c
    THEN CHOOSE j \in 1..Len(s) : Char(s, j) = c /\ \A k \in (j + 1)..Len(s) : Char(s, k) # c
    ELSE 0

\* s.replace(a, b) for one-character texts a and b.
Replace(s, a, b) == [i \in 1..Len(s) |-> IF Char(s, i) = a THEN b ELSE Char(s, i)]

RECURSIVE Concat(_)
Concat(q) == IF q = <<>> THEN "" ELSE Head(q) \o Concat(Tail(q))

ReplaceChar(s, a, b) == Concat(Replace(s, a, b))

\* os.path.basename, os.path.dirname, os.path.splitext(...)[0] on POSIX
\* paths; a name that only starts with its dots has no extension.
BaseName(path) == SubSeq(path, RFind(path, "/") + 1, Len(path))

DirName(path) ==
    LET h == RFind(path, "/")
    IN  IF h = 0 THEN "" ELSE IF h = 1 THEN "/" ELSE SubSeq(path, 1, h - 1)

SplitExtRoot(name) ==
    LET d == RFind(name, ".")
    IN  IF d = 0 \/ LStripChars(SubSeq(name, 1, d - 1), {"."}) = "" THEN name
        ELSE SubSeq(name, 1, d - 1)

name_from_filename(fname) == ReplaceChar(SplitExtRoot(BaseName(fname)), "_", " ")

\* DatFile(name): a named container with no survey.
DatFile(name) == [name |-> name, surveys |-> <<>>]

\* The character 0x1A (substitute), for which "~" stands in the texts of the
\* model; no other text of the model holds a "~".
SUB == "~"

\* A plausible slip: the soft-EOF chunk is looked for before the chunks are
\* stripped, so that a substitute character with its line end is kept.
SurveyStrs_RawSub(full_contents) ==
    Bind(SplitSep(full_contents, "\f", -1), LAMBDA raw :
        LET cut == IF raw[Len(raw)] = SUB THEN SubSeq(raw, 1, Len(raw) - 1) ELSE raw
        IN  [i \in 1..Len(cut) |-> Strip(cut[i])])

\* survey_strs: the stripped chunks between the form feeds, without a last
\* chunk that is the substitute character alone.
SurveyStrs(full_contents) ==
    Bind(SplitSep(full_contents, "\f", -1), LAMBDA raw :
        Bind([i \in 1..Len(raw) |-> Strip(raw[i])], LAMBDA all :
            IF all[Len(all)] = SUB THEN SubSeq(all, 1, Len(all) - 1) ELSE all))

\* One turn of `for survey_str in survey_strs`: an empty chunk is passed
\* over, any other is parsed and its Survey added.  d holds the DatFile and
\* the exception, if any, that left the parse.
DatChunkStep(d, survey_str) ==
    IF survey_str = "" THEN d
    ELSE Bind(CompassSurveyParser_parse(survey_str), LAMBDA r :
            IF r.exc # "" THEN [d EXCEPT !.exc = r.exc]
            ELSE [d EXCEPT !.datobj.surveys = Append(@, r.sv)])

RECURSIVE DatChunks(_, _)
DatChunks(d0, strs0) ==
    Bind(<<d0, strs0>>, LAMBDA a :
        LET d    == a[1]
            strs == a[2]
        IN  IF strs = <<>> \/ d.exc # "" THEN d
            ELSE DatChunks(DatChunkStep(d, Head(strs)), Tail(strs)))

\* CompassDatParser(datfilename).parse() on a file of the given contents:
\* the DatFile, or the exception (exc) that left the parse.
CompassDatParser_parse(datfilename, full_contents) ==
    DatChunks([exc |-> "", datobj |-> DatFile(name_from_filename(datfilename))],
              SurveyStrs(full_contents))

-----------------------------------------------------------------------------
(* SpecDat: a .DAT file is read, split into chunks and parsed chunk by chunk *)

MaxChunks == 3

RECURSIVE JoinWith(_, _)
JoinWith(q, sep) == IF q = <<>> THEN ""
                    ELSE IF Len(q) = 1 THEN q[1]
                    ELSE q[1] \o sep \o JoinWith(Tail(q), sep)

\* The text of a survey record: the cave-name line (left out when cave is
\* empty), the name, date and team lines, the format line, the column header
\* between two separator lines, and the shot rows.
RecordText(cave, name, date_comment, rows) ==
    JoinWith((IF cave = "" THEN <<>> ELSE <<cave>>) \o
             << "SURVEY NAME: " \o name,
                "SURVEY DATE: " \o date_comment,
                "SURVEY TEAM:",
                "Stan Allison, Bo",
                "DECLINATION: 11.18  FORMAT: DMMD",
                "",
                "FROM TO LENGTH FLAGS COMMENTS",
                "" >> \o rows, "\r\n")

TwoRows == << "A1 A2 37.85", "A2 A3 12.00 #|L#tape" >>

ChunkPool ==
    { RecordText("FULFORD CAVE", "BS", "2 11 1989  COMMENT:Big Stope", <<"B1 B2 5.50">>),
      RecordText("", "Q7", "7 10 79", TwoRows),
      RecordText("", "A1", "7 10 79  COMMENT:", TwoRows),
      RecordText("", "Q8", "13 10 79", TwoRows),
      "", "\r\n", SUB, SUB \o "\r\n", "junk" }

DatContents ==
    UNION { {JoinWith(q, "\f") : q \in [1..n -> ChunkPool]} : n \in 1..MaxChunks }

DatFilenames == {"caves/FULFORD.DAT", "FULFORD_SURFACE.DAT"}

DatInit ==
    /\ \E fn \in DatFilenames, c \in DatContents :
          dat = [status |-> "open", datfilename |-> fn, contents |-> c,
                 survey_strs |-> <<>>, done |-> <<>>,
                 datobj |-> DatFile(name_from_filename(fn))]
    /\ IdleShot /\ IdleCoerce /\ IdleSurvey /\ IdleParse /\ IdleConv
    /\ IdleMak /\ IdleTxt /\ IdleFile /\ IdleJob

\* full_contents = datfile.read(); survey_strs = [...]; the soft-EOF chunk is
\* popped
DatRead ==
    /\ dat.status = "open"
    /\ dat' = [dat EXCEPT !.status = "chunks", !.survey_strs = SurveyStrs(dat.contents)]
    /\ UNCHANGED <<shotVars, coerceVars, surveyVars, parseVars, convVars,
                   makVars, txtVars, fileVars, jobVars>>

\* one turn of `for survey_str in survey_strs`
DatChunk ==
    /\ dat.status = "chunks" /\ dat.survey_strs # <<>>
    /\ LET d == DatChunkStep([exc |-> "", datobj |-> dat.datobj], Head(dat.survey_strs))
       IN  dat' = IF d.exc # "" THEN [dat EXCEPT !.status = d.exc]
                  ELSE [dat EXCEPT !.datobj = d.datobj,
                                   !.survey_strs = Tail(@),
                                   !.done = Append(@, Head(dat.survey_strs))]
    /\ UNCHANGED <<shotVars, coerceVars, surveyVars, parseVars, convVars,
                   makVars, txtVars, fileVars, jobVars>>

\* return datobj
DatReturn ==
    /\ dat.status = "chunks" /\ dat.survey_strs = <<>>
    /\ dat' = [dat EXCEPT !.status = "returned"]
    /\ UNCHANGED <<shotVars, coerceVars, surveyVars, parseVars, convVars,
                   makVars, txtVars, fileVars, jobVars>>

DatNext == DatRead \/ DatChunk \/ DatReturn

SpecDat == DatInit /\ [][DatNext]_vars

DatRaised == dat.status \notin {"idle", "open", "chunks", "returned"}

\* The chunks of a file between its form feeds, as they stand in the file.
Chunks(full_contents) == SplitSep(full_contents, "\f", -1)

\* The last chunk is a soft-EOF chunk when it holds the substitute character
\* and, beside it, white space only.
IsSoftEof(q, i) == i = Len(q) /\ Strip(q[i]) = SUB

\* The chunks from the i-th on that are neither empty (white space only) nor
\* the soft-EOF chunk, in file order.
RECURSIVE NonEmptyChunks(_, _)
NonEmptyChunks(q, i) ==
    IF i > Len(q) THEN <<>>
    ELSE IF Strip(q[i]) = "" \/ IsSoftEof(q, i) THEN NonEmptyChunks(q, i + 1)
    ELSE <<Strip(q[i])>> \o NonEmptyChunks(q, i + 1)

\* C12: the DatFile that parse returns holds exactly one Survey per non-empty
\* chunk of the file, in file order: empty chunks and a final chunk of the
\* substitute character alone add no survey; and parse raises only when a
\* non-empty chunk is itself no well-formed survey record.
C12_OneSurveyPerChunk ==
    LET ne  == NonEmptyChunks(Chunks(dat.contents), 1)
        res == [i \in 1..Len(ne) |-> CompassSurveyParser_parse(ne[i])]
    IN  /\ dat.status = "returned" =>
              /\ Len(dat.datobj.surveys) = Len(ne)
              /\ \A i \in 1..Len(ne) : dat.datobj.surveys[i] = res[i].sv
        /\ DatRaised => \E i \in 1..Len(ne) : res[i].exc # ""

\* A file of two records with an empty chunk between them and the soft-EOF
\* chunk at its end has been parsed into the two surveys, in file order.
C12_Witness ==
    /\ dat.status = "returned"
    /\ Len(Chunks(dat.contents)) = 3
    /\ IsSoftEof(Chunks(dat.contents), 3)
    /\ Len(dat.datobj.surveys) = 2
    /\ dat.datobj.surveys[1].name = "BS" /\ dat.datobj.surveys[2].name = "Q7"

\* The name that the first line of a record of the layout without cave name
\* states: the text after the label.
StatedName(survey_str) ==
    LET first == Strip(SplitLines(survey_str)[1])
    IN  Strip(SubSeq(first, Len("SURVEY NAME:") + 1, Len(first)))

NoCaveLayout(survey_str) ==
    survey_str # "" /\ StartsWith(Strip(SplitLines(survey_str)[1]), "SURVEY NAME:")

CaveLine == "SECRET CAVE"

\* C13: a record whose first line is "SURVEY NAME: N" yields cave_name "" and
\* name N, and the same record preceded by a cave-name line C yields
\* cave_name C and the same name N, with the same date, comment, team, header
\* and shots.
C13_BothLayouts ==
    \A i \in 1..Len(dat.datobj.surveys) :
        LET str == dat.done[i]
            r1  == dat.datobj.surveys[i]
            r2  == CompassSurveyParser_parse(CaveLine \o "\r\n" \o str)
        IN  NoCaveLayout(str) =>
                /\ r1.cave_name = "" /\ r1.name = StatedName(str)
                /\ r2.exc = ""
                /\ r2.sv.cave_name = CaveLine /\ r2.sv.name = StatedName(str)
                /\ r2.sv.date = r1.date /\ r2.sv.comment = r1.comment
                /\ r2.sv.team = r1.team /\ r2.sv.shot_header = r1.shot_header
                /\ r2.sv.shots = r1.shots

-----------------------------------------------------------------------------
(* davies.compass: UTMLocation, Project, CompassProjectParser.parse *)

\* float(v): white space around the literal is allowed.
PyFloat(s) == FloatOf(Strip(s))

\* int(x) of a number: its fraction is cut off, towards zero.
IntOf(v) == IF v.n >= 0 THEN Num((v.n \div 100) * 100)
            ELSE Num(0 - (((0 - v.n) \div 100) * 100))

ArgOr(args, i) == IF Len(args) >= i THEN args[i] ELSE None

\* UTMLocation(*args) for three to six positional arguments.
UTMLocation(args) ==
    [set |-> TRUE, easting |-> args[1], northing |-> args[2], elevation |-> args[3],
     zone |-> IF Len(args) >= 4 THEN IntOf(args[4]) ELSE None,
     convergence |-> ArgOr(args, 5), datum |-> ArgOr(args, 6)]

\* base_location = None
NoLocation ==
    [set |-> FALSE, easting |-> None, northing |-> None, elevation |-> None,
     zone |-> None, convergence |-> None, datum |-> None]

LowerCase == "abcdefghijklmnopqrstuvwxyz"
UpperCase == "ABCDEFGHIJKLMNOPQRSTUVWXYZ"

\* c.upper() for a one-character text.
Upper(c) == LET i == Find(LowerCase, c, 1) IN IF i = 0 THEN c ELSE Char(UpperCase, i)

\* parse_linked_file(value): the text before the first comma, the
\* terminators that end the value dropped.
parse_linked_file(value) == SplitSep(RStripChars(value, {";"}), ",", 1)[1]

\* The locals of parse() before the first line is read.
MakLocals ==
    [exc |-> "", prev |-> None, linked_files |-> <<>>,
     base_location |-> NoLocation, file_params |-> {}]

\* `if prev:` - a pending text that is not empty.
Pending(st) == st.prev.t = "str" /\ st.prev.s # ""

\* One turn of `for line in makfile`.
MakLine(st, raw) ==
    LET line   == Strip(raw)
        first  == Char(line, 1)   \* header
        value  == SubSeq(line, 2, Len(line))
        bare   == RStripChars(value, {";"})
        parts  == SplitSep(bare, ",", -1)
        nums   == [i \in 1..Len(parts) |-> PyFloat(parts[i])]
    IN  IF line = "" THEN st
        ELSE IF Pending(st)
        THEN IF EndsWith(line, ";")
             THEN [st EXCEPT !.linked_files =
                                Append(@, parse_linked_file(st.prev.s \o RStripChars(line, {";"}))),
                             !.prev = None]
             ELSE [st EXCEPT !.prev = Str(st.prev.s \o value)]
        ELSE IF first = "@"
        THEN IF \E i \in 1..Len(nums) : nums[i].t = "raise"
             THEN [st EXCEPT !.exc = "ValueError"]
             ELSE IF Len(nums) \notin 3..6 THEN [st EXCEPT !.exc = "TypeError"]
             ELSE [st EXCEPT !.base_location = UTMLocation(nums)]
        ELSE IF first = "&"
        THEN IF ~st.base_location.set THEN [st EXCEPT !.exc = "AttributeError"]
             ELSE [st EXCEPT !.base_location.datum = Str(bare)]
        ELSE IF first = "%"
        THEN IF PyFloat(bare).t = "raise" THEN [st EXCEPT !.exc = "ValueError"]
             ELSE IF ~st.base_location.set THEN [st EXCEPT !.exc = "AttributeError"]
             ELSE [st EXCEPT !.base_location.convergence = PyFloat(bare)]
        ELSE IF first = "!"
        THEN [st EXCEPT !.file_params = {Upper(c) : c \in CharsOf(bare)}]
        ELSE IF first = "#"
        THEN IF EndsWith(value, ";")
             THEN [st EXCEPT !.linked_files = Append(@, parse_linked_file(value)),
                             !.prev = None]
             ELSE [st EXCEPT !.prev = Str(value)]
        ELSE st

\* The whole loop: the locals after the last line, or at the line that raised.
RECURSIVE MakRun(_, _)
MakRun(st0, rest0) ==
    Bind(<<st0, rest0>>, LAMBDA a :
        LET st   == a[1]
            rest == a[2]
        IN  IF rest = <<>> \/ st.exc # "" THEN st
            ELSE MakRun(MakLine(st, Head(rest)), Tail(rest)))

\* os.path.join(a, b) on POSIX paths.
PathJoin(a, b) == IF a = "" \/ StartsWith(b, "/") THEN b
                  ELSE IF EndsWith(a, "/") THEN a \o b ELSE a \o "/" \o b

\* The path a linked file is opened at: the directory of the project file
\* joined with the name, its backslashes turned into slashes.  (The names of
\* the model hold no ".", ".." or doubled separator for normpath to remove.)
LinkedPath(makfilename, linked_file) ==
    PathJoin(DirName(makfilename), ReplaceChar(linked_file, "\\", "/"))

\* Project(name, base_location, file_params): no linked file yet.
Project(name, base_location, file_params) ==
    [name |-> name, base_location |-> base_location, file_params |-> file_params,
     linked_files |-> <<>>]

-----------------------------------------------------------------------------
(* SpecMak: a .MAK file is read line by line, then its linked files parsed *)

MaxMakLines == 3

MakFilename == "caves/FULFORDS.MAK"

MakLinePool ==
    { "/c", "", "@1.00,2.00,3.00,13;", "&NAD83;", "%0.50;", "!ot;", "!o", "t;",
      "#A.DAT;", "#SUB\\B_1.DAT,X1[m,1.0];", "#C.DAT,", "#C", "2.DAT,", "X1;" }

MakFiles == UNION {[1..n -> MakLinePool] : n \in 1..MaxMakLines}

\* The .DAT files that exist beside the project file, with their contents.
Disk ==
    [path \in {"caves/A.DAT", "caves/SUB/B_1.DAT", "caves/C.DAT"} |->
        CASE path = "caves/A.DAT" ->
                 RecordText("FULFORD CAVE", "BS", "2 11 1989", <<"B1 B2 5.50">>)
          [] path = "caves/SUB/B_1.DAT" ->
                 RecordText("", "Q7", "7 10 79", TwoRows) \o "\f" \o SUB
          [] OTHER -> ""]

MakInit ==
    /\ \E f \in MakFiles :
          mak = [status |-> "reading", makfilename |-> MakFilename, file |-> f,
                 rest |-> f, st |-> MakLocals,
                 project |-> Project("", NoLocation, {}), todo |-> <<>>]
    /\ IdleShot /\ IdleCoerce /\ IdleSurvey /\ IdleParse /\ IdleConv
    /\ IdleDat /\ IdleTxt /\ IdleFile /\ IdleJob

\* one turn of `for line in makfile`
MakReadLine ==
    /\ mak.status = "reading" /\ mak.rest # <<>>
    /\ \E st \in {MakLine(mak.st, Head(mak.rest))} :
           mak' = IF st.exc # "" THEN [mak EXCEPT !.status = st.exc, !.st = st]
                  ELSE [mak EXCEPT !.st = st, !.rest = Tail(@)]
    /\ UNCHANGED <<shotVars, coerceVars, surveyVars, parseVars, convVars,
                   datVars, txtVars, fileVars, jobVars>>

\* after the last line: project = Project(name_from_filename(...), ...)
MakProject ==
    /\ mak.status = "reading" /\ mak.rest = <<>>
    /\ mak' = [mak EXCEPT !.status = "linking",
                          !.project = Project(name_from_filename(mak.makfilename),
                                              mak.st.base_location, mak.st.file_params),
                          !.todo = mak.st.linked_files]
    /\ UNCHANGED <<shotVars, coerceVars, surveyVars, parseVars, convVars,
                   datVars, txtVars, fileVars, jobVars>>

\* one turn of `for linked_file in linked_files`: the file is opened (IOError
\* when there is none), parsed, and its DatFile added to the project
MakLink ==
    /\ mak.status = "linking" /\ mak.todo # <<>>
    /\ LET path == LinkedPath(mak.makfilename, Head(mak.todo))
       IN  IF path \notin DOMAIN Disk
           THEN mak' = [mak EXCEPT !.status = "IOError"]
           ELSE \E r \in {CompassDatParser_parse(path, Disk[path])} :
                   mak' = IF r.exc # "" THEN [mak EXCEPT !.status = r.exc]
                          ELSE [mak EXCEPT !.project.linked_files = Append(@, r.datobj),
                                           !.todo = Tail(@)]
    /\ UNCHANGED <<shotVars, coerceVars, surveyVars, parseVars, convVars,
                   datVars, txtVars, fileVars, jobVars>>

\* return project
MakReturn ==
    /\ mak.status = "linking" /\ mak.todo = <<>>
    /\ mak' = [mak EXCEPT !.status = "returned"]
    /\ UNCHANGED <<shotVars, coerceVars, surveyVars, parseVars, convVars,
                   datVars, txtVars, fileVars, jobVars>>

MakNext == MakReadLine \/ MakProject \/ MakLink \/ MakReturn

SpecMak == MakInit /\ [][MakNext]_vars

\* The linked-file directives of a file, in order: a line that starts with
\* "#" while no linked-file record is pending, concatenated with the lines
\* after it up to and including the first line that ends in ";".  pend is the
\* text of the pending record ("" when there is none).
RECURSIVE LinkDirectives(_, _)
LinkDirectives(rest, pend) ==
    IF rest = <<>> THEN <<>>
    ELSE LET line == Strip(Head(rest))
         IN  IF line = "" THEN LinkDirectives(Tail(rest), pend)
             ELSE IF pend # ""
             THEN IF EndsWith(line, ";")
                  THEN <<pend \o line>> \o LinkDirectives(Tail(rest), "")
                  ELSE LinkDirectives(Tail(rest), pend \o line)
             ELSE IF Char(line, 1) # "#" THEN LinkDirectives(Tail(rest), "")
             ELSE IF EndsWith(line, ";")
                  THEN <<line>> \o LinkDirectives(Tail(rest), "")
                  ELSE LinkDirectives(Tail(rest), line)

\* The bare filename of a directive: the text between the "#" and the first
\* comma, the terminator stripped.
BareFilename(d) == SplitSep(RStripChars(SubSeq(d, 2, Len(d)), {";"}), ",", 1)[1]

\* The name a container takes after a bare filename: the last component of
\* the path (written with either separator), its extension dropped and its
\* underscores turned into spaces.
NamedAfter(filename) == name_from_filename(ReplaceChar(filename, "\\", "/"))

\* C11: the Project that parse returns holds exactly one File container per
\* linked-file directive of the file, in the order of the directives, each
\* named after the bare filename of its directive (the text before the first
\* comma, the terminator stripped); len(project) is the number of directives.
C11_OneContainerPerDirective ==
    mak.status = "returned" =>
        LET D == LinkDirectives(mak.file, "")
        IN  /\ Len(mak.project.linked_files) = Len(D)
            /\ \A i \in 1..Len(D) :
                  mak.project.linked_files[i].name = NamedAfter(BareFilename(D[i]))

\* The directive lines of a file with every directive written on one line: a
\* line that starts a directive ("@", "&", "%", "!" or "#") and does not end
\* in ";" is concatenated with the lines after it up to and including the
\* first that ends in ";".
RECURSIVE JoinDirectives(_, _)
JoinDirectives(rest, pend) ==
    IF rest = <<>> THEN (IF pend = "" THEN <<>> ELSE <<pend>>)
    ELSE LET line == Strip(Head(rest))
         IN  IF line = "" THEN JoinDirectives(Tail(rest), pend)
             ELSE IF pend # ""
             THEN IF EndsWith(line, ";")
                  THEN <<pend \o line>> \o JoinDirectives(Tail(rest), "")
                  ELSE JoinDirectives(Tail(rest), pend \o line)
             ELSE IF Char(line, 1) \in {"@", "&", "%", "!", "#"} /\ ~EndsWith(line, ";")
             THEN JoinDirectives(Tail(rest), line)
             ELSE <<line>> \o JoinDirectives(Tail(rest), "")

\* Every directive of the file ends, sooner or later, in its terminator.
AllTerminated(f) ==
    \A d \in SeqToSet(JoinDirectives(f, "")) :
        Char(d, 1) \in {"@", "&", "%", "!", "#"} => EndsWith(d, ";")

\* The loop over the lines is over: the last line is read, or a line raised.
LinesRead == mak.status # "idle" /\ (mak.rest = <<>> \/ mak.st.exc # "")

\* C18: a file whose directives are split over several lines (every line but
\* the last of a directive not ending in ";") is read exactly as the file
\* with each directive written on one line, for every kind of directive: the
\* same base location, flags and linked files, the same outcome, and no
\* record left pending after the terminating line.
C18_Continuation ==
    (LinesRead /\ AllTerminated(mak.file)) =>
        /\ mak.st = MakRun(MakLocals, JoinDirectives(mak.file, ""))
        /\ ~Pending(mak.st)

-----------------------------------------------------------------------------
(* davies.pockettopo: TxtFile and PocketTopoTxtParser.parse *)

\* \w or \s of a regular expression, for the characters of the model.
IsWordOrSpace(c) ==
    \/ IsSpace(c) \/ IsDigit(c) \/ c = "_"
    \/ Find(LowerCase, c, 1) # 0 \/ Find(UpperCase, c, 1) # 0

\* The longest prefix of s made of \w and \s characters.
RECURSIVE WordPrefix(_)
WordPrefix(s) == IF s # "" /\ IsWordOrSpace(Char(s, 1))
                 THEN Char(s, 1) \o WordPrefix(SubSeq(s, 2, Len(s))) ELSE ""

\* int(s) of a text: white space around an optionally signed run of digits.
PyInt(s) ==
    LET t      == Strip(s)
        signed == t # "" /\ Char(t, 1) \in {"-", "+"}
        body   == IF signed THEN SubSeq(t, 2, Len(t)) ELSE t
    IN  IF body = "" \/ ~AllDigits(body) THEN Raise("ValueError")
        ELSE IF signed /\ Char(t, 1) = "-" THEN Num(0 - (100 * ToNat(body)))
        ELSE Num(100 * ToNat(body))

\* datetime.strptime(date, '%Y/%m/%d').date()
DateYMD(date) ==
    LET parts == SplitSep(date, "/", -1)
        ok    == /\ Len(parts) = 3
                 /\ \A i \in 1..3 : parts[i] # "" /\ AllDigits(parts[i])
                 /\ Len(parts[1]) = 4 /\ Len(parts[2]) <= 2 /\ Len(parts[3]) <= 2
        y     == ToNat(parts[1])
        m     == ToNat(parts[2])
        d     == ToNat(parts[3])
    IN  IF ok /\ y >= 1 /\ m \in 1..12 /\ d >= 1 /\ d <= DaysIn(m, y)
        THEN DateOf(y, m, d) ELSE Raise("ValueError")

\* TxtFile(name, length_units, angle_units), or the exception its checks of
\* the units raise.
TxtFile(name, length_units, angle_units) ==
    [exc |-> IF length_units \notin {"m", "feet"} \/ angle_units \notin {Num(36000), Num(40000)}
             THEN "Exception" ELSE "",
     name |-> name, length_units |-> length_units, angle_units |-> angle_units,
     surveys |-> <<>>, reference_points |-> <<>>]

\* The first line: ^([\w\s]*)\(([\w\s]*),([\w\s]*) gives the cave name and the
\* two units; a line the pattern does not fit leaves search() with None, whose
\* groups() is an AttributeError.
TxtFirstLine(first_line) ==
    LET par   == Find(first_line, "(", 1)
        cave  == SubSeq(first_line, 1, par - 1)
        after == SubSeq(first_line, par + 1, Len(first_line))
        lu    == WordPrefix(after)
        tail  == SubSeq(after, Len(lu) + 1, Len(after))
        au    == WordPrefix(SubSeq(tail, 2, Len(tail)))
        fits  == /\ par # 0 /\ WordPrefix(cave) = cave
                 /\ tail # "" /\ Char(tail, 1) = ","
    IN  IF ~fits THEN [exc |-> "AttributeError"]
        ELSE IF PyInt(au).t = "raise" THEN [exc |-> "ValueError"]
        ELSE TxtFile(Strip(cave), lu, PyInt(au))

\* One line of the metadata block: Survey(id, date, comment, declination,
\* cave_name) is added to the file.
TxtSurveyLine(t, raw) ==
    LET toks == SplitMax(raw, 3)
        id   == StripChars(toks[1], {"[", "]", ":"})
        date == DateYMD(toks[2])
        decl == PyFloat(toks[3])
        comment == IF Len(toks) = 4 THEN StripChars(toks[4], {"\""}) ELSE ""
    IN  IF Len(toks) < 3 THEN [t EXCEPT !.exc = "ValueError"]
        ELSE IF date.t = "raise" \/ decl.t = "raise" THEN [t EXCEPT !.exc = "ValueError"]
        ELSE [t EXCEPT !.surveys =
                 Append(@, [fmt |-> "pockettopo", declination |-> decl,
                            shots |-> <<>>, adds |-> 0, name |-> id, date |-> date,
                            comment |-> comment, cave_name |-> t.name])]

\* A lookup that ignores the name and always gives the first survey.
SurveyIndex_First(surveys, item) ==
    IF Len(surveys) > 0 THEN 1 ELSE 0

\* txtobj[survey_id]: the index of the first survey of that name, or 0
\* (KeyError).
SurveyIndex(surveys, item) ==
    IF \E i \in 1..Len(surveys) : surveys[i].name = item
    THEN CHOOSE i \in 1..Len(surveys) :
            surveys[i].name = item /\ \A j \in 1..(i - 1) : surveys[j].name # item
    ELSE 0

\* reference_points[station] = utm_location on an ordered mapping: a station
\* already present keeps its place and takes the new value.
SetPoint(points, station, loc) ==
    IF \E i \in 1..Len(points) : points[i].station = station
    THEN [i \in 1..Len(points) |->
             IF points[i].station = station THEN [station |-> station, loc |-> loc]
             ELSE points[i]]
    ELSE Append(points, [station |-> station, loc |-> loc])

\* A plausible slip: a line with no station token is passed over whatever its
\* length.
ShotShape_AnyLength(from_to, length) ==
    IF Len(from_to) = 2 THEN "shot"
    ELSE IF Len(from_to) = 1 THEN "splay"
    ELSE IF from_to = <<>> THEN "skip"
    ELSE "raise"

\* What the station tokens before length, azimuth and inclination make of a
\* shot line.
ShotShape(from_to, length) ==
    IF Len(from_to) = 2 THEN "shot"
    ELSE IF Len(from_to) = 1 THEN "splay"
    ELSE IF from_to = <<>> /\ length.n = 0 THEN "skip"
    ELSE "raise"

\* One turn of `while lines:` over the survey data.
TxtLine(t, raw) ==
    LET line0   == Strip(raw)
        q       == Find(line0, "\"", 1)
        line    == IF q = 0 THEN line0 ELSE SubSeq(line0, 1, q - 1)
        comment == IF q = 0 THEN None
                   ELSE Str(RStripChars(SubSeq(line0, q + 1, Len(line0)), {"\""}))
        \* a line without "[": a reference point or a zero-length fake shot
        rtoks   == SplitWs(line)
        vals    == [i \in 1..3 |-> PyFloat(rtoks[i + 1])]
        point   == [easting |-> vals[1], northing |-> vals[2], elevation |-> vals[3],
                    comment |-> comment]
        \* a line with "[": a shot of the survey named in the brackets
        pieces  == SplitSep(line, "[", -1)
        survey_id == RStripChars(RStrip(pieces[2]), {"]"})
        toks    == SplitWs(pieces[1])
        from_to == SubSeq(toks, 1, Len(toks) - 3)
        last3   == SubSeq(toks, Len(toks) - 2, Len(toks))
        nums    == [i \in 1..3 |-> PyFloat(last3[i])]
        shape   == ShotShape(from_to, nums[1])
        sh      == [fmt |-> "pockettopo", declination |-> 0,
                    f |-> [k \in PocketTopoKeys \cup {"COMMENT"} |->
                             CASE k = "FROM"   -> Str(from_to[1])
                               [] k = "TO"     -> IF shape = "shot" THEN Str(from_to[2]) ELSE None
                               [] k = "LENGTH" -> nums[1]
                               [] k = "AZM"    -> nums[2]
                               [] k = "INC"    -> nums[3]
                               [] OTHER        -> comment]]
        idx     == SurveyIndex(t.surveys, survey_id)
    IN  IF line0 = "" THEN t
        ELSE IF Find(line, "[", 1) = 0
        THEN IF Len(rtoks) # 4 THEN t
             ELSE IF \E i \in 1..3 : vals[i].t = "raise" THEN [t EXCEPT !.exc = "ValueError"]
             ELSE IF vals[1].n = 0 THEN t
             ELSE [t EXCEPT !.reference_points = SetPoint(@, rtoks[1], point)]
        ELSE IF Len(pieces) # 2 THEN [t EXCEPT !.exc = "ValueError"]
        ELSE IF Len(toks) < 3 \/ \E i \in 1..3 : nums[i].t = "raise"
        THEN [t EXCEPT !.exc = "ValueError"]
        ELSE IF shape = "skip" THEN t
        ELSE IF shape = "raise" THEN [t EXCEPT !.exc = "Exception"]
        ELSE IF idx = 0 THEN [t EXCEPT !.exc = "KeyError"]
        ELSE [t EXCEPT !.surveys[idx] = PocketTopo_add_shot(@, sh)]

-----------------------------------------------------------------------------
(* SpecTxt: a PocketTopo .TXT file is read: first line, metadata, data *)

MaxTxtLines == 2

TxtHeaders == {"FULFORD (m, 360)", "Hole 2(feet,400)"}

TxtMetas == { << "[1]: 2013/07/21 8.50" >>,
              << "[1]: 2013/07/21 8.50", "[2]: 2013/07/22 0.00 \"Day two\"" >> }

TxtLinePool ==
    { "1.0 1.1 5.00 10.00 2.00 [1]",
      "1.1 3.20 95.00 -4.00 [1] \"left wall\"",
      "1.1 1.2 4.00 20.00 0.00 [2]",
      "1.3 2.00 0.00 0.00 [2]",
      "0.000 0.00 0.00 [1]",
      "0.000 0.00 0.00 [9]",
      "2.50 0.00 0.00 [1]",
      "1.0 1.1 1.2 5.00 10.00 2.00 [1]",
      "1.0 0.000 0.00 0.00",
      "1.0 715.72 837.57 48.00 \"Entrance\"",
      "1.0 1.1 5.00",
      "",
      "Trip 0.00 of 3",
      "1.2 6.00 30.00 1.00 \"wet\" [1]" }

TxtData == UNION {[1..n -> TxtLinePool] : n \in 0..MaxTxtLines}

TxtInit ==
    /\ \E h \in TxtHeaders, m \in TxtMetas, d \in TxtData :
          LET f == <<h, "">> \o m \o <<"">> \o d
          IN  txt = [status |-> "open", file |-> f, rest |-> f,
                     t |-> TxtFile("", "m", Num(36000))]
    /\ IdleShot /\ IdleCoerce /\ IdleSurvey /\ IdleParse /\ IdleConv
    /\ IdleMak /\ IdleDat /\ IdleFile /\ IdleJob

\* `while not lines[0]: lines.pop(0)`: the lines left after the empty ones at
\* the front, or IndexError when no line is left to look at.
RECURSIVE SkipBlanks(_)
SkipBlanks(rest) ==
    IF rest = <<>> THEN [exc |-> "IndexError", rest |-> <<>>]
    ELSE IF Head(rest) = "" THEN SkipBlanks(Tail(rest))
    ELSE [exc |-> "", rest |-> rest]

\* the first line is read, the TxtFile made, the blank lines skipped
TxtOpen ==
    /\ txt.status = "open"
    /\ LET t == TxtFirstLine(Head(txt.rest))
           b == SkipBlanks(Tail(txt.rest))
       IN  txt' = IF t.exc # "" THEN [txt EXCEPT !.status = t.exc]
                  ELSE IF b.exc # "" THEN [txt EXCEPT !.status = b.exc, !.t = t]
                  ELSE [txt EXCEPT !.status = "surveys", !.t = t, !.rest = b.rest]
    /\ UNCHANGED <<shotVars, coerceVars, surveyVars, parseVars, convVars,
                   makVars, datVars, fileVars, jobVars>>

\* one turn of `while lines[0].startswith('[')`
TxtSurvey ==
    /\ txt.status = "surveys"
    /\ txt.rest # <<>> /\ StartsWith(Head(txt.rest), "[")
    /\ LET t == TxtSurveyLine(txt.t, Head(txt.rest))
       IN  txt' = IF t.exc # "" THEN [txt EXCEPT !.status = t.exc]
                  ELSE [txt EXCEPT !.t = t, !.rest = Tail(@)]
    /\ UNCHANGED <<shotVars, coerceVars, surveyVars, parseVars, convVars,
                   makVars, datVars, fileVars, jobVars>>

\* the end of the metadata block (IndexError when the lines have run out) and
\* the blank lines after it
TxtBlock ==
    /\ txt.status = "surveys"
    /\ ~(txt.rest # <<>> /\ StartsWith(Head(txt.rest), "["))
    /\ LET b == SkipBlanks(txt.rest)
       IN  txt' = IF b.exc # "" THEN [txt EXCEPT !.status = b.exc]
                  ELSE [txt EXCEPT !.status = "data", !.rest = b.rest]
    /\ UNCHANGED <<shotVars, coerceVars, surveyVars, parseVars, convVars,
                   makVars, datVars, fileVars, jobVars>>

\* one turn of `while lines:`
TxtDataLine ==
    /\ txt.status = "data" /\ txt.rest # <<>>
    /\ LET t == TxtLine(txt.t, Head(txt.rest))
       IN  txt' = IF t.exc # "" THEN [txt EXCEPT !.status = t.exc]
                  ELSE [txt EXCEPT !.t = t, !.rest = Tail(@)]
    /\ UNCHANGED <<shotVars, coerceVars, surveyVars, parseVars, convVars,
                   makVars, datVars, fileVars, jobVars>>

\* return txtobj
TxtReturn ==
    /\ txt.status = "data" /\ txt.rest = <<>>
    /\ txt' = [txt EXCEPT !.status = "returned"]
    /\ UNCHANGED <<shotVars, coerceVars, surveyVars, parseVars, convVars,
                   makVars, datVars, fileVars, jobVars>>

TxtNext == TxtOpen \/ TxtSurvey \/ TxtBlock \/ TxtDataLine \/ TxtReturn

SpecTxt == TxtInit /\ [][TxtNext]_vars

\* The data line about to be read; its text before the first double quote;
\* whether that text holds a bracket; the tokens before the bracket and the
\* survey id between the brackets.
NextLine == Head(txt.rest)

Uncommented(l) ==
    LET t == Strip(l)
        q == Find(t, "\"", 1)
    IN  IF q = 0 THEN t ELSE SubSeq(t, 1, q - 1)

HasBracket(l) == Find(Uncommented(l), "[", 1) # 0

BeforeBracket(l) ==
    SplitWs(SubSeq(Uncommented(l), 1, Find(Uncommented(l), "[", 1) - 1))

BracketId(l) ==
    LET u == Uncommented(l)
        a == Find(u, "[", 1)
        b == Find(u, "]", a)
    IN  SubSeq(u, a + 1, b - 1)

\* The station tokens of a shot line (those before the last three), and
\* whether its last three tokens are numbers.
StationCount(l) == Len(BeforeBracket(l)) - 3

Reading(l, i) == PyFloat(BeforeBracket(l)[StationCount(l) + i])

ThreeNumbers(l) ==
    StationCount(l) >= 0 /\ \A i \in 1..3 : Reading(l, i).t = "num"

Registered(id) == \E k \in 1..Len(txt.t.surveys) : txt.t.surveys[k].name = id

\* The step reads a data line; afterwards the parse goes on with the next
\* line, or has been left by an exception (and no TxtFile is returned).
ReadsLine == txt.status = "data" /\ txt.rest # <<>>
Continues == txt'.status = "data" /\ txt'.rest = Tail(txt.rest)
Aborts    == txt'.status \notin {"open", "surveys", "data", "returned"} /\ txt'.t = txt.t

\* The step appends to one survey's shot list a shot made of the line.
AddsShot(l) ==
    \E k \in 1..Len(txt.t.surveys) :
        /\ \A j \in 1..Len(txt.t.surveys) :
              j # k => txt'.t.surveys[j].shots = txt.t.surveys[j].shots
        /\ Len(txt'.t.surveys[k].shots) = Len(txt.t.surveys[k].shots) + 1
        /\ SubSeq(txt'.t.surveys[k].shots, 1, Len(txt.t.surveys[k].shots))
              = txt.t.surveys[k].shots
        /\ LET sh == txt'.t.surveys[k].shots[Len(txt'.t.surveys[k].shots)]
               n  == StationCount(l)
           IN  /\ sh.f["FROM"] = Str(BeforeBracket(l)[1])
               /\ sh.f["TO"] = IF n = 2 THEN Str(BeforeBracket(l)[2]) ELSE None
               /\ PocketTopo_is_splay(sh) <=> n = 1
               /\ sh.f["LENGTH"] = Reading(l, 1)
               /\ sh.f["AZM"] = Reading(l, 2)
               /\ sh.f["INC"] = Reading(l, 3)

Changed == {k \in 1..Len(txt.t.surveys) : txt'.t.surveys[k].shots # txt.t.surveys[k].shots}

\* The line yields a shot: one or two station tokens before three numbers.
YieldsShot(l) == HasBracket(l) /\ ThreeNumbers(l) /\ StationCount(l) \in {1, 2}

\* C15: every parsed shot is appended, at the end of the list, to the shot
\* list of the survey registered under the bracketed id of its line and to
\* no other; a shot line whose id was not registered aborts the parse: no
\* survey is created and no shot is added anywhere.
C15_ShotGoesToItsSurvey ==
    [][ ReadsLine =>
          LET l == NextLine
          IN  /\ Len(txt'.t.surveys) = Len(txt.t.surveys)
              /\ \A k \in 1..Len(txt.t.surveys) : txt'.t.surveys[k].name = txt.t.surveys[k].name
              /\ Changed # {} => YieldsShot(l)
              /\ YieldsShot(l) =>
                    IF Registered(BracketId(l))
                    THEN /\ Continues /\ AddsShot(l)
                         /\ \A k \in Changed : txt.t.surveys[k].name = BracketId(l)
                    ELSE Aborts /\ Changed = {} ]_vars

\* Both surveys of a file have taken one shot each, the one under their id.
C15_Witness ==
    /\ txt.status = "returned"
    /\ Len(txt.t.surveys) = 2
    /\ Len(txt.t.surveys[1].shots) = 1 /\ Len(txt.t.surveys[2].shots) = 1
    /\ txt.t.surveys[1].shots[1].f["TO"] = Str("1.1")
    /\ txt.t.surveys[2].shots[1].f["TO"] = Str("1.2")

\* The tokens of a line without bracket.
PointToks(l) == SplitWs(Uncommented(l))

\* The step registers, under the line's station, the point that tokens 2 to
\* 4 give.
RegistersPoint(l) ==
    \E i \in 1..Len(txt'.t.reference_points) :
        LET pt == txt'.t.reference_points[i]
        IN  /\ pt.station = PointToks(l)[1]
            /\ pt.loc.easting = PyFloat(PointToks(l)[2])
            /\ pt.loc.northing = PyFloat(PointToks(l)[3])
            /\ pt.loc.elevation = PyFloat(PointToks(l)[4])
            /\ pt.loc.elevation.t = "num" /\ pt.loc.northing.t = "num"

\* C16: for a data line without a bracketed survey id: four tokens with the
\* second numerically zero add nothing; four tokens with the second a
\* non-zero number register a reference point under the station with
\* easting, northing and elevation from tokens 2 to 4; any other count of
\* tokens is skipped.  In all three cases no shot list changes and the parse
\* goes on with the next line.
C16_LinesWithoutBracket ==
    [][ (ReadsLine /\ ~HasBracket(NextLine)) =>
          LET l      == NextLine
              toks   == PointToks(l)
              second == PyFloat(toks[2])
          IN  IF Len(toks) # 4 THEN Continues /\ txt'.t = txt.t
              ELSE IF second.t # "num" THEN TRUE
              ELSE IF second.n = 0 THEN Continues /\ txt'.t = txt.t
              ELSE /\ Continues /\ txt'.t.surveys = txt.t.surveys
                   /\ RegistersPoint(l) ]_vars

-----------------------------------------------------------------------------
(* File containers: DatFile and TxtFile, add_survey, in, [], length *)

\* A Survey object in a container: oid stands for the object's identity (a
\* Survey defines no __eq__, so two surveys are equal when they are the same
\* object), name is its name (a string or None), sv its shots.
SurveyObj(oid, name, sv) == [oid |-> oid, name |-> name, sv |-> sv]

\* A reference to the Survey object of that identity, used as a lookup item.
Obj(oid) == [t |-> "obj", n |-> oid, s |-> ""]

\* item == survey.name or item == survey
Matches(item, e) == item = e.name \/ (item.t = "obj" /\ item.n = e.oid)

\* add_survey: the survey is appended.
add_survey(surveys, e) == Append(surveys, e)

\* __contains__: the surveys are tried in order.
RECURSIVE File_contains(_, _)
File_contains(surveys, item) ==
    IF surveys = <<>> THEN FALSE
    ELSE IF Matches(item, Head(surveys)) THEN TRUE
    ELSE File_contains(Tail(surveys), item)

NoSurveyObj(fmt) == SurveyObj(0, None, NewSurvey(fmt, None))

\* A lookup that gives the last survey that matches, not the first.
RECURSIVE File_getitem_Last(_, _, _)
File_getitem_Last(surveys, item, fmt) ==
    IF surveys = <<>> THEN [exc |-> "KeyError", obj |-> NoSurveyObj(fmt)]
    ELSE IF Matches(item, surveys[Len(surveys)])
    THEN [exc |-> "", obj |-> surveys[Len(surveys)]]
    ELSE File_getitem_Last(SubSeq(surveys, 1, Len(surveys) - 1), item, fmt)

\* __getitem__: the surveys are tried in order, the first match is returned;
\* KeyError when the loop ends.
RECURSIVE File_getitem(_, _, _)
File_getitem(surveys, item, fmt) ==
    IF surveys = <<>> THEN [exc |-> "KeyError", obj |-> NoSurveyObj(fmt)]
    ELSE IF Matches(item, Head(surveys)) THEN [exc |-> "", obj |-> Head(surveys)]
    ELSE File_getitem(Tail(surveys), item, fmt)

\* length: sum([survey.length for survey in self.surveys])
File_length(surveys) ==
    SumLengths([i \in 1..Len(surveys) |-> Survey_length(surveys[i].sv)])

-----------------------------------------------------------------------------
(* SpecFile: surveys are added to a DatFile or TxtFile and looked up *)

MaxSurveys == 3

CompassLeg(l) ==
    [fmt |-> "compass", declination |-> 0,
     f |-> [BEARING |-> Num(30700), LENGTH |-> l, FLAGS |-> None]]

PocketTopoLeg(to, l) ==
    [fmt |-> "pockettopo", declination |-> 0,
     f |-> [FROM |-> Str("A"), TO |-> to, AZM |-> Num(30700), LENGTH |-> l]]

\* The Survey objects at hand for each kind of container: two of the same
\* name, one without name, one whose length cannot be summed (Compass) or
\* that holds a splay alone (PocketTopo).
FileSurveyPool(fmt) ==
    IF fmt = "compass"
    THEN { SurveyObj(1, Str("A"),
              Compass_add_shot(NewSurvey("compass", None), CompassLeg(Num(1000)))),
           SurveyObj(2, Str("A"),
              Compass_add_shot(NewSurvey("compass", None), CompassLeg(Num(250)))),
           SurveyObj(3, None, NewSurvey("compass", None)),
           SurveyObj(4, Str("B"),
              Compass_add_shot(NewSurvey("compass", None), CompassLeg(None))) }
    ELSE { SurveyObj(1, Str("A"),
              PocketTopo_add_shot(
                 PocketTopo_add_shot(NewSurvey("pockettopo", Num(0)),
                                     PocketTopoLeg(Str("B"), Num(1000))),
                 PocketTopoLeg(None, Num(250)))),
           SurveyObj(2, Str("A"),
              PocketTopo_add_shot(NewSurvey("pockettopo", Num(0)),
                                  PocketTopoLeg(Str("B"), Num(250)))),
           SurveyObj(3, None, NewSurvey("pockettopo", Num(0))),
           SurveyObj(4, Str("B"),
              PocketTopo_add_shot(NewSurvey("pockettopo", Num(0)),
                                  PocketTopoLeg(None, Num(250)))) }

\* The items looked up: names, None, the objects at hand and a foreign one.
FileItems == {Str("A"), Str("B"), Str("Z"), None} \cup {Obj(k) : k \in 1..5}

NoResult(fmt) == [exc |-> "", obj |-> NoSurveyObj(fmt), has |-> FALSE, length |-> None]

NewFile(fmt) ==
    [status |-> "ready", fmt |-> fmt, surveys |-> <<>>, op |-> "new",
     item |-> None, out |-> NoResult(fmt)]

FileInit ==
    /\ file = NewFile("compass")
    /\ IdleShot /\ IdleCoerce /\ IdleSurvey /\ IdleParse /\ IdleConv
    /\ IdleMak /\ IdleDat /\ IdleTxt /\ IdleJob

FileOthers == <<shotVars, coerceVars, surveyVars, parseVars, convVars, mak, dat, txt, job>>

\* DatFile(name)
NewDatFile ==
    /\ file' = NewFile("compass")
    /\ UNCHANGED FileOthers

\* TxtFile(name)
NewTxtFile ==
    /\ file' = NewFile("pockettopo")
    /\ UNCHANGED FileOthers

\* container.add_survey(survey)
FileAddSurvey ==
    /\ Len(file.surveys) < MaxSurveys
    /\ \E e \in FileSurveyPool(file.fmt) :
          file' = [file EXCEPT !.surveys = add_survey(@, e), !.op = "add_survey",
                               !.item = Obj(e.oid), !.out = NoResult(file.fmt)]
    /\ UNCHANGED FileOthers

\* item in container
FileContains ==
    /\ \E item \in FileItems :
          file' = [file EXCEPT !.op = "contains", !.item = item,
                               !.out = [NoResult(file.fmt) EXCEPT
                                          !.has = File_contains(file.surveys, item)]]
    /\ UNCHANGED FileOthers

\* container[item]
FileGetItem ==
    /\ \E item \in FileItems :
          LET r == File_getitem(file.surveys, item, file.fmt)
          IN  file' = [file EXCEPT !.op = "getitem", !.item = item,
                                   !.out = [NoResult(file.fmt) EXCEPT
                                              !.exc = r.exc, !.obj = r.obj]]
    /\ UNCHANGED FileOthers

\* container.length
FileLength ==
    /\ LET r == File_length(file.surveys)
       IN  file' = [file EXCEPT !.op = "length", !.item = None,
                                !.out = [NoResult(file.fmt) EXCEPT
                                           !.exc = IF r.t = "raise" THEN r.s ELSE "",
                                           !.length = IF r.t = "raise" THEN None ELSE r]]
    /\ UNCHANGED FileOthers

FileNext ==
    \/ NewDatFile \/ NewTxtFile \/ FileAddSurvey
    \/ FileContains \/ FileGetItem \/ FileLength

SpecFile == FileInit /\ [][FileNext]_vars

\* The places of the surveys that an item names or is.
MatchSet(item) ==
    {i \in 1..Len(file.surveys) :
        file.surveys[i].name = item \/ (item.t = "obj" /\ item.n = file.surveys[i].oid)}

\* The sum of the lengths of the first k surveys (hundredths).
RECURSIVE LengthUpTo(_)
LengthUpTo(k) ==
    IF k = 0 THEN 0 ELSE LengthUpTo(k - 1) + Survey_length(file.surveys[k].sv).n

\* C17: for a DatFile or TxtFile after any sequence of add_survey calls:
\* 'item in container' is true exactly when container[item] returns a
\* survey; container[item] returns the first survey in insertion order
\* whose name equals the item or which is the item, and raises KeyError when
\* there is none; container.length is the sum of the lengths of its
\* surveys; no lookup changes the survey list.
C17_FileLookups ==
    [][ (file.status = "ready" /\ file'.status = "ready" /\
         file'.op \in {"contains", "getitem", "length"}) =>
          /\ file'.surveys = file.surveys
          /\ \A item \in FileItems :
                /\ File_contains(file.surveys, item)
                      <=> File_getitem(file.surveys, item, file.fmt).exc = ""
                /\ File_contains(file.surveys, item) <=> MatchSet(item) # {}
          /\ file'.op = "contains" => (file'.out.has <=> MatchSet(file'.item) # {})
          /\ file'.op = "getitem" =>
                IF MatchSet(file'.item) = {}
                THEN file'.out.exc = "KeyError"
                ELSE /\ file'.out.exc = ""
                     /\ \E i \in MatchSet(file'.item) :
                           /\ \A j \in MatchSet(file'.item) : i <= j
                           /\ file'.out.obj = file.surveys[i]
          /\ (file'.op = "length" /\
              \A i \in 1..Len(file.surveys) : Survey_length(file.surveys[i].sv).t = "num") =>
                /\ file'.out.exc = ""
                /\ file'.out.length = Num(LengthUpTo(Len(file.surveys))) ]_vars

\* A TxtFile holds two surveys of one name and the lookup of that name has
\* returned the first of them.
C17_Witness ==
    /\ file.status = "ready" /\ file.fmt = "pockettopo" /\ file.op = "getitem"
    /\ Len(file.surveys) >= 2
    /\ file.surveys[1].name = Str("A") /\ file.surveys[2].name = Str("A")
    /\ file.surveys[1].oid # file.surveys[2].oid
    /\ file.item = Str("A") /\ file.out.obj = file.surveys[1]

-----------------------------------------------------------------------------
(* SpecLrud: a leg and the splays of its station are converted *)

MaxSplays == 2

\* Two legs from station A, one of them with an azimuth whose right-hand
\* direction wraps past 360 degrees.
LrudLegs ==
    { PShot("A", Str("B"), 1000, 0, 0),
      PShot("A", Str("C"), 1200, 35000, 1000) }

\* Splays of station A: to the left (in the middle and at both edges of the
\* cone), to the right (inside and just outside the cone), up and down.
LrudSplays ==
    { PShot("A", None, 500, 27000, 0),
      PShot("A", None, 200, 27000, 3000),
      PShot("A", None, 300, 24000, -1000),
      PShot("A", None, 400, 9000, 0),
      PShot("A", None, 900, 12100, 0),
      PShot("A", None, 600, 0, 4500),
      PShot("A", None, 700, 18000, -4500) }

LrudInit ==
    /\ \E leg \in LrudLegs : \E n \in 0..MaxSplays : \E q \in [1..n -> LrudSplays] :
          insurvey = [fmt |-> "pockettopo", declination |-> Num(850),
                      shots |-> <<leg>> \o q, adds |-> n + 1]
    /\ opts \in [exclude_splays : BOOLEAN, calculate_lrud : BOOLEAN]
    /\ outshots = <<>> /\ cpos = 1 /\ cstatus = "converting"
    /\ IdleShot /\ IdleCoerce /\ IdleSurvey /\ IdleParse /\ IdleExt

SpecLrud == LrudInit /\ [][ConvNext]_vars

\* The splays of the survey taken at a station.
SplaySet(station) ==
    {sp \in SeqToSet(insurvey.shots) : PocketTopo_is_splay(sp) /\ sp.f["FROM"] = station}

\* The difference of two directions, at most half a turn.
Apart(a, b) ==
    LET x == Abs(a - b) % 36000 IN IF x > 18000 THEN 36000 - x ELSE x

\* The greatest number of a set, 0 for the empty set.
Greatest(S) == IF S = {} THEN 0 ELSE CHOOSE x \in S : \A y \in S : y <= x

\* The greatest horizontal projected distance among the splays of a set that
\* point within 30 degrees of a direction and within 30 degrees of level.
Sideways(S, dir) ==
    Greatest({hd(sp.f["INC"].n, sp.f["LENGTH"].n) :
                sp \in {x \in S : /\ Apart(x.f["AZM"].n, dir) <= 3000
                                  /\ Abs(x.f["INC"].n) <= 3000}})

Converting ==
    /\ cstatus = "converting" /\ cpos <= Len(insurvey.shots)
    /\ ~(PocketTopo_is_splay(insurvey.shots[cpos]) /\ opts.exclude_splays)

\* C20: conversion is deterministic: the same survey converted with the
\* same options gives the same Compass shot, field for field, whatever the
\* random source returns; the invented TO name of a splay depends only on
\* its FROM station and its position.
C20_Deterministic ==
    Converting =>
        \A r1, r2 \in RandSample :
            shot2shot(insurvey, insurvey.shots[cpos], opts.calculate_lrud, r1)
              = shot2shot(insurvey, insurvey.shots[cpos], opts.calculate_lrud, r2)

-----------------------------------------------------------------------------
(* examples/pockettopo2compass.py: pockettopo2compass *)

\* s.rsplit('.', 1)[0]: the text before the last dot, all of it without one.
RSplitRoot(s) == LET d == RFind(s, ".") IN IF d = 0 THEN s ELSE SubSeq(s, 1, d - 1)

\* cave_name = os.path.basename(txtfilename).rsplit('.', 1)[0].replace('_', ' ')
CaveNameOf(txtfilename) == ReplaceChar(RSplitRoot(BaseName(txtfilename)), "_", " ")

\* outfilename = txtfilename.rsplit('.', 1)[0] + '.DAT'
OutFilename(txtfilename) == RSplitRoot(txtfilename) \o ".DAT"

\* A plausible slip: the declination is not handed over to the new survey.
OutSurvey_NoDeclination(insv, cave_name) ==
    [fmt |-> "compass", declination |-> None, shots |-> <<>>, adds |-> 0,
     name |-> insv.name, date |-> insv.date, comment |-> insv.comment,
     team |-> None, cave_name |-> cave_name,
     length_units |-> "M", passage_units |-> "M"]

\* outsurvey = compass.Survey(insurvey.name, insurvey.date, comment=...,
\* cave_name=cave_name, declination=insurvey.declination), its units set to
\* metres.
OutSurvey(insv, cave_name) ==
    [fmt |-> "compass", declination |-> insv.declination, shots |-> <<>>, adds |-> 0,
     name |-> insv.name, date |-> insv.date, comment |-> insv.comment,
     team |-> None, cave_name |-> cave_name,
     length_units |-> "M", passage_units |-> "M"]

-----------------------------------------------------------------------------
(* SpecJob: a TxtFile is converted survey by survey into a DatFile *)

MaxJobSurveys == 2

\* A PocketTopo survey as the parser registers it, its shots added with
\* add_shot.
RECURSIVE AddShots(_, _)
AddShots(sv, shots) ==
    IF shots = <<>> THEN sv
    ELSE AddShots(PocketTopo_add_shot(sv, Head(shots)), Tail(shots))

JobSurvey(name, date, comment, decl, shots) ==
    AddShots([fmt |-> "pockettopo", declination |-> Num(decl), shots |-> <<>>,
              adds |-> 0, name |-> name, date |-> DateOf(2013, 7, date),
              comment |-> comment, cave_name |-> "FULFORD"], shots)

\* Surveys with a leg and splays in either order (TO absent or empty), two
\* surveys of one name, a survey without shots and one of legs alone.
JobSurveyPool ==
    { JobSurvey("1", 21, "", 850,
                << PShot("A", Str("B"), 1000, 0, 0), PShot("A", None, 500, 27000, 0) >>),
      JobSurvey("2", 22, "wet", 0,
                << PShot("B", Str(""), 250, 0, 9000), PShot("B", Str("C"), 1200, 35000, 1000),
                   PShot("B", None, 400, 9000, 0) >>),
      JobSurvey("1", 23, "again", -100, <<>>),
      JobSurvey("3", 24, "", 1118,
                << PShot("C", Str("D"), 800, 9000, 0), PShot("D", Str("E"), 1000, 0, 0) >>) }

JobFilenames == {"caves/FULFORD_CAVE.txt", "Hole.2.txt"}

JobInit ==
    /\ \E fn \in JobFilenames : \E n \in 1..MaxJobSurveys : \E q \in [1..n -> JobSurveyPool] :
       \E o \in [exclude_splays : BOOLEAN, calculate_lrud : BOOLEAN] :
          job = [status |-> "called", txtfilename |-> fn, infile |-> q, opts |-> o,
                 cave_name |-> "", outfilename |-> "", outfile |-> DatFile(""),
                 si |-> 0, outsurvey |-> OutSurvey(q[1], ""), pos |-> 0]
    /\ IdleShot /\ IdleCoerce /\ IdleSurvey /\ IdleParse /\ IdleConv
    /\ IdleMak /\ IdleDat /\ IdleTxt /\ IdleFile

JobOthers == <<shotVars, coerceVars, surveyVars, parseVars, convVars, mak, dat, txt, file>>

\* infile = TxtFile.read(...); cave_name, outfilename; outfile = DatFile(cave_name)
JobOpen ==
    /\ job.status = "called"
    /\ job' = [job EXCEPT !.status = "surveys",
                          !.cave_name = CaveNameOf(job.txtfilename),
                          !.outfilename = OutFilename(job.txtfilename),
                          !.outfile = DatFile(CaveNameOf(job.txtfilename)),
                          !.si = 1]
    /\ UNCHANGED JobOthers

\* a turn of `for insurvey in infile` begins: outsurvey = compass.Survey(...)
JobNewSurvey ==
    /\ job.status = "surveys" /\ job.si <= Len(job.infile)
    /\ job' = [job EXCEPT !.status = "shots",
                          !.outsurvey = OutSurvey(job.infile[job.si], job.cave_name),
                          !.pos = 1]
    /\ UNCHANGED JobOthers

\* `if inshot.is_splay and exclude_splays: continue`
JobSkipSplay ==
    /\ job.status = "shots" /\ job.pos <= Len(job.infile[job.si].shots)
    /\ PocketTopo_is_splay(job.infile[job.si].shots[job.pos]) /\ job.opts.exclude_splays
    /\ job' = [job EXCEPT !.pos = @ + 1]
    /\ UNCHANGED JobOthers

\* outshot = shot2shot(insurvey, inshot, calculate_lrud);
\* outsurvey.add_shot(outshot)
JobConvertShot ==
    /\ job.status = "shots" /\ job.pos <= Len(job.infile[job.si].shots)
    /\ ~(PocketTopo_is_splay(job.infile[job.si].shots[job.pos]) /\ job.opts.exclude_splays)
    /\ \E r \in RandSample :
       \E res \in {shot2shot(job.infile[job.si], job.infile[job.si].shots[job.pos],
                             job.opts.calculate_lrud, r)} :
          job' = IF res.exc # "" THEN [job EXCEPT !.status = res.exc]
                 ELSE [job EXCEPT !.outsurvey = Compass_add_shot(@, res.shot),
                                  !.pos = @ + 1]
    /\ UNCHANGED JobOthers

\* the shots of the survey are done: outfile.add_survey(outsurvey)
JobAddSurvey ==
    /\ job.status = "shots" /\ job.pos > Len(job.infile[job.si].shots)
    /\ job' = [job EXCEPT !.status = "surveys",
                          !.outfile.surveys = Append(@, job.outsurvey),
                          !.si = @ + 1]
    /\ UNCHANGED JobOthers

\* the surveys are done: outfile.write(outfilename)
JobWrite ==
    /\ job.status = "surveys" /\ job.si > Len(job.infile)
    /\ job' = [job EXCEPT !.status = "written"]
    /\ UNCHANGED JobOthers

JobNext ==
    \/ JobOpen \/ JobNewSurvey \/ JobSkipSplay \/ JobConvertShot
    \/ JobAddSurvey \/ JobWrite

SpecJob == JobInit /\ [][JobNext]_vars

\* The input shots that are to be converted: all of them, or those that are
\* no splay, in their order.
Wanted(insv) ==
    IF job.opts.exclude_splays THEN SelectShots(insv.shots, FALSE) ELSE insv.shots

\* The output shot carries the input shot over.
CarriesOver(out, in) ==
    /\ out.f["FROM"] = in.f["FROM"]
    /\ out.f["BEARING"] = in.f["AZM"]
    /\ out.f["INC"] = in.f["INC"]
    /\ out.order = <<"FROM", "TO", "LENGTH", "BEARING", "INC", "LEFT", "UP", "DOWN",
                     "RIGHT", "FLAGS", "COMMENTS">>

\* The Compass survey is the conversion of the PocketTopo survey.
ConvertedFrom(outsv, insv) ==
    /\ outsv.name = insv.name /\ outsv.date = insv.date
    /\ outsv.comment = insv.comment /\ outsv.declination = insv.declination
    /\ Len(outsv.shots) = Len(Wanted(insv))
    /\ \A i \in 1..Len(outsv.shots) : CarriesOver(outsv.shots[i], Wanted(insv)[i])

Spec == SpecShot

====
